---- MODULE Spec2Model ----
(***************************************************************************)
(* A model of the LinkedIn job scraper: the single-page extractor          *)
(* (job_page_scraper.py), the batch card extractor and the aggregator      *)
(* (linkedin_job_reporter_ui.py).                                          *)
(*                                                                         *)
(* Text is a sequence of one-character strings, so that strip(), split(),  *)
(* lower() and the substring test "kw in text" are computed as Python      *)
(* computes them.  An optional value (Optional[str], a dict key that may   *)
(* be missing) is NoneV or Some(v).                                        *)
(***************************************************************************)
EXTENDS Integers, Sequences, FiniteSets, TLC

VARIABLES
    jobs,        \* analyze_job_data: the record sequence handed to it
    first,       \* the statistics returned by the first call
    second,      \* the statistics returned by the second call on the same input
    clock,       \* datetime.now(), in ticks
    a_pc,        \* "input" | "once" | "twice"
    page,        \* extract_job_listings: what each card selector finds
    max_jobs,    \* its max_jobs argument
    job_cards,   \* the cards of the first selector that found any
    card_i,      \* how many of them the card loop has visited
    card_jobs,   \* the local list `jobs` of extract_job_listings
    raised,      \* how many visited cards ended in the per-card handler
    listings,    \* the value extract_job_listings returned
    b_pc,        \* "idle" | "find" | "cards" | "returned"
    job_url,     \* LinkedInJobScraper: the URL it was built with
    page_type,   \* 'search' | 'view'
    selectors,   \* the selector catalog in use: key -> list of selectors
    doc,         \* the document: selector -> the nodes it matches, in order
    expanded,    \* whether a 'show more' button of the document was clicked
    frame,       \* the local variables run has assigned so far
    queries,     \* the selectors the document was asked for, in order
    result,      \* the value run returned
    selector_key,\* the key a resolver is called with
    resolved,    \* the value the resolver returned
    driver_calls,\* the calls _expand_description made on the driver, in order
    r_pc,        \* where run, or the resolver call, stands
    args,        \* summary_js.py main: the parsed command line
    json_files,  \* the job files find_json_files found, latest first
    s_env,       \* what the file system and the LLM answer
    run_call,    \* the arguments JobSummarizer.run was called with
    summary_files, \* how many summary files were written
    shown,       \* whether the summary was printed
    opened,      \* whether a summary file was opened
    inputs,      \* how many answers the interactive prompt has read
    s_pc,        \* "idle" | "main" | "select" | "run" | "done"
    experience_levels, \* automation.py: the experience levels asked for
    buttons,     \* the buttons of the page, as methods 5 and 6 find them
    level_i,     \* how many levels the checkbox loop has handled
    method,      \* the 'Show results' method that is next
    show_results_clicked, \* the flag of the same name
    events,      \* what was done on the page, in order
    handler,     \* the except clause that ended the call, "" when none did
    success,     \* the value automate_linkedin_job_search returned
    m_pc,        \* where automate_linkedin_job_search stands
    caller,      \* linkedin_job_reporter_ui.py: the entry point that runs
    pending,     \* what the searches still to come will return, in order
    searched,    \* the local `jobs` of the caller: what the last search returned
    formats,     \* the report formats still to be generated for it
    analysis,    \* the statistics computed last
    reads,       \* the reads of statistics keys made so far
    reports,     \* the values generate_report returned, in order
    p_pc         \* "idle" | "search" | "check" | "reports" | "preview" | "raised" | "done"

aggVars == <<jobs, first, second, clock, a_pc>>
batchVars == <<page, max_jobs, job_cards, card_i, card_jobs, raised, listings, b_pc>>

scraperVars == <<job_url, page_type, selectors, doc, expanded, frame, queries,
                 result, selector_key, resolved, driver_calls, r_pc>>

summaryVars == <<args, json_files, s_env, run_call, summary_files, shown, opened,
                 inputs, s_pc>>

autoVars == <<experience_levels, buttons, level_i, method, show_results_clicked,
              events, handler, success, m_pc>>

reportVars == <<caller, pending, searched, formats, analysis, reads, reports, p_pc>>

vars == <<aggVars, batchVars, scraperVars, summaryVars, autoVars, reportVars>>

\* The aggregator, respectively the batch extractor, has not been called.
AggIdle ==
    /\ jobs = <<>>
    /\ first = <<>>
    /\ second = <<>>
    /\ a_pc = "idle"

BatchIdle ==
    /\ page = <<>>
    /\ max_jobs = 0
    /\ job_cards = <<>>
    /\ card_i = 0
    /\ card_jobs = <<>>
    /\ raised = {}
    /\ listings = <<>>
    /\ b_pc = "idle"

ScraperIdle ==
    /\ job_url = <<>>
    /\ page_type = "search"
    /\ selectors = <<>>
    /\ doc = <<>>
    /\ expanded = FALSE
    /\ frame = <<>>
    /\ queries = <<>>
    /\ result = <<>>
    /\ selector_key = ""
    /\ resolved = <<>>
    /\ driver_calls = <<>>
    /\ r_pc = "idle"

\* The summarizer command line has not been run.
SummaryIdle ==
    /\ args = <<>>
    /\ json_files = <<>>
    /\ s_env = <<>>
    /\ run_call = <<>>
    /\ summary_files = 0
    /\ shown = FALSE
    /\ opened = FALSE
    /\ inputs = 0
    /\ s_pc = "idle"

\* automate_linkedin_job_search has not been called.
AutoIdle ==
    /\ experience_levels = <<>>
    /\ buttons = <<>>
    /\ level_i = 0
    /\ method = 0
    /\ show_results_clicked = FALSE
    /\ events = <<>>
    /\ handler = ""
    /\ success = <<>>
    /\ m_pc = "idle"

\* No entry point of the reporter is running.
ReportIdle ==
    /\ caller = ""
    /\ pending = <<>>
    /\ searched = <<>>
    /\ formats = <<>>
    /\ analysis = <<>>
    /\ reads = {}
    /\ reports = <<>>
    /\ p_pc = "idle"

-----------------------------------------------------------------------------
(* Bounds of the model.                                                    *)

\* Longest run of records with pairwise distinct company/location/time.
MaxFresh == 11
\* Longest freely chosen prefix of sample records before that run.
MaxHead == 2
\* Largest clock reading, in ticks.
MaxClock == 2
\* Clock ticks in one second, the resolution of strftime("%H:%M:%S").
TicksPerSecond == 2

-----------------------------------------------------------------------------
(* Python built-ins on text.                                               *)

NoneV == <<>>
Some(v) == <<v>>

Min(a, b) == IF a <= b THEN a ELSE b

\* str.isspace() for the characters the model draws.
Whitespace == {" ", "\t", "\n"}

\* F(v), with v evaluated once and handed to F as a value.
of_value(F(_), v) == CHOOSE r \in {F(x) : x \in {v}} : TRUE

\* The positions of the characters of s that are not whitespace.
non_space(s) == {i \in 1..Len(s) : s[i] \notin Whitespace}

least(S) == CHOOSE i \in S : \A j \in S : i <= j
greatest(S) == CHOOSE i \in S : \A j \in S : j <= i
\* The k-th smallest element of S.
kth(S, k) == CHOOSE i \in S : Cardinality({j \in S : j <= i}) = k

\* str.strip(): s without its leading and trailing whitespace.
stripped(s) ==
    IF \A i \in 1..Len(s) : s[i] \in Whitespace THEN <<>>
    ELSE SubSeq(s,
                CHOOSE i \in 1..Len(s) :
                    s[i] \notin Whitespace /\ \A j \in 1..(i - 1) : s[j] \in Whitespace,
                CHOOSE i \in 1..Len(s) :
                    s[i] \notin Whitespace /\ \A j \in (i + 1)..Len(s) : s[j] \in Whitespace)

strip(s) == of_value(stripped, s)

\* str.split(): the maximal runs of non-whitespace characters, in order.
word_starts(s) == {i \in non_space(s) : i = 1 \/ s[i - 1] \in Whitespace}
word_ends(s) == {i \in non_space(s) : i = Len(s) \/ s[i + 1] \in Whitespace}

split(s) ==
    [k \in 1..Cardinality(word_starts(s)) |->
        SubSeq(s, kth(word_starts(s), k), kth(word_ends(s), k))]

\* ' '.join(words)
RECURSIVE join(_)
join(words) ==
    IF Len(words) = 0 THEN <<>>
    ELSE IF Len(words) = 1 THEN words[1]
    ELSE words[1] \o <<" ">> \o join(Tail(words))

UpperCase == <<"A","B","C","D","E","F","G","H","I","J","K","L","M",
               "N","O","P","Q","R","S","T","U","V","W","X","Y","Z">>
LowerCase == <<"a","b","c","d","e","f","g","h","i","j","k","l","m",
               "n","o","p","q","r","s","t","u","v","w","x","y","z">>

lower_char(c) ==
    IF \E i \in 1..Len(UpperCase) : UpperCase[i] = c
    THEN LowerCase[CHOOSE i \in 1..Len(UpperCase) : UpperCase[i] = c]
    ELSE c

\* Mutant of lower: the text is compared without being lower-cased.
lower_omitted(s) == s

\* str.lower()
lowered(s) == [i \in 1..Len(s) |-> lower_char(s[i])]

lower(s) == of_value(lowered, s)

\* the substring test "kw in s"
contains(s, kw) ==
    \E text \in {s} : \E word \in {kw} :
        \E i \in 1..(Len(text) - Len(word) + 1) :
            SubSeq(text, i, i + Len(word) - 1) = word

\* any(word in s for word in words)
contains_any(s, words) ==
    \E text \in {s} : \E i \in 1..Len(words) : contains(text, words[i])

\* dict.get(key, default)
get(d, key, default) == IF key \in DOMAIN d THEN d[key] ELSE default

\* datetime.now().strftime("%Y-%m-%d %H:%M:%S"): the clock cut to whole seconds.
strftime(now) == now \div TicksPerSecond

-----------------------------------------------------------------------------
(* linkedin_job_reporter_ui.py: analyze_job_data                           *)

TitleNotFound == <<"T","i","t","l","e"," ","n","o","t"," ","f","o","u","n","d">>
CompanyNotFound == <<"C","o","m","p","a","n","y"," ","n","o","t"," ","f","o","u","n","d">>
LocationNotFound == <<"L","o","c","a","t","i","o","n"," ","n","o","t"," ","f","o","u","n","d">>
Unknown == <<"U","n","k","n","o","w","n">>
title_not_found_lower == <<"t","i","t","l","e"," ","n","o","t"," ","f","o","u","n","d">>

\* The vocabulary scanned against each lower-cased title, in scan order.
keywords == <<
    <<"a","n","a","l","y","s","t">>,
    <<"s","e","n","i","o","r">>,
    <<"j","u","n","i","o","r">>,
    <<"m","a","n","a","g","e","r">>,
    <<"e","n","g","i","n","e","e","r">>,
    <<"d","e","v","e","l","o","p","e","r">>,
    <<"s","p","e","c","i","a","l","i","s","t">>,
    <<"l","e","a","d">>,
    <<"p","r","i","n","c","i","p","a","l">>,
    <<"d","i","r","e","c","t","o","r">>
>>

\* most_common(10)
TopK == 10

\* A Counter (and the dict made from it) is the sequence of its <<key, count>>
\* pairs in insertion order, which is the order a dict iterates in.
counter_keys(counter) == {counter[i][1] : i \in 1..Len(counter)}

\* counter[key] += 1
counter_inc(counter, key) ==
    IF key \in counter_keys(counter)
    THEN [i \in 1..Len(counter) |->
            IF counter[i][1] = key THEN <<key, counter[i][2] + 1>> ELSE counter[i]]
    ELSE Append(counter, <<key, 1>>)

\* sorted(items, key=count, reverse=True) is stable: an item goes behind every
\* item of greater or equal count that came before it.
\* Mutant of insert_by_count: an item goes in front of the items of equal
\* count, so ties come out in reverse order of first encounter.
RECURSIVE insert_before_ties(_, _)
insert_before_ties(sorted, item) ==
    IF Len(sorted) = 0 THEN <<item>>
    ELSE IF sorted[1][2] > item[2]
         THEN <<sorted[1]>> \o insert_before_ties(Tail(sorted), item)
         ELSE <<item>> \o sorted

RECURSIVE insert_by_count(_, _)
insert_by_count(sorted, item) ==
    IF Len(sorted) = 0 THEN <<item>>
    ELSE IF sorted[1][2] >= item[2]
         THEN <<sorted[1]>> \o insert_by_count(Tail(sorted), item)
         ELSE <<item>> \o sorted

RECURSIVE sorted_by_count(_)
sorted_by_count(items) ==
    IF Len(items) = 0 THEN <<>>
    ELSE insert_by_count(sorted_by_count(SubSeq(items, 1, Len(items) - 1)),
                         items[Len(items)])

\* Counter.most_common(n): heapq.nlargest(n, items, key=count), which is
\* sorted(items, key=count, reverse=True)[:n].
most_common(counter, n) ==
    SubSeq(sorted_by_count(counter), 1, Min(n, Len(counter)))

\* The records before the last one.
front(js) == SubSeq(js, 1, Len(js) - 1)

\* Mutant of company_counter: the sentinel is counted like any company.
RECURSIVE company_counter_with_sentinel(_)
company_counter_with_sentinel(js) ==
    IF Len(js) = 0 THEN <<>>
    ELSE counter_inc(company_counter_with_sentinel(front(js)),
                     get(js[Len(js)], "company", Unknown))

\* lines 426-430: the loop over jobs, as the counter after its last record.
RECURSIVE company_counter(_)
company_counter(js) ==
    IF Len(js) = 0 THEN <<>>
    ELSE LET company == get(js[Len(js)], "company", Unknown)
         IN  IF company # CompanyNotFound
             THEN counter_inc(company_counter(front(js)), company)
             ELSE company_counter(front(js))

\* lines 436-440
RECURSIVE location_counter(_)
location_counter(js) ==
    IF Len(js) = 0 THEN <<>>
    ELSE LET location == get(js[Len(js)], "location", Unknown)
         IN  IF location # LocationNotFound
             THEN counter_inc(location_counter(front(js)), location)
             ELSE location_counter(front(js))

\* lines 446-450: "if posted_time" drops the empty string.
RECURSIVE time_counter(_)
time_counter(js) ==
    IF Len(js) = 0 THEN <<>>
    ELSE LET posted_time == get(js[Len(js)], "posted_time", Unknown)
         IN  IF Len(posted_time) > 0
             THEN counter_inc(time_counter(front(js)), posted_time)
             ELSE time_counter(front(js))

\* Mutant of keywords_in: the scan stops at the first keyword a title
\* contains.
keywords_in_first(title) ==
    LET hits == SelectSeq(keywords, LAMBDA kw : contains(title, kw))
    IN  SubSeq(hits, 1, Min(1, Len(hits)))

\* lines 460-462: the keywords a title contains, in vocabulary order.
keywords_in(title) == SelectSeq(keywords, LAMBDA kw : contains(title, kw))

\* lines 461-463: counter[keyword] += 1 for each of them in turn.
RECURSIVE counter_inc_all(_, _)
counter_inc_all(counter, kws) ==
    IF Len(kws) = 0 THEN counter
    ELSE counter_inc(counter_inc_all(counter, front(kws)), kws[Len(kws)])

\* lines 455-463
RECURSIVE keyword_counter(_)
keyword_counter(js) ==
    IF Len(js) = 0 THEN <<>>
    ELSE LET title == lower(get(js[Len(js)], "title", <<>>))
         IN  IF Len(title) > 0 /\ title # title_not_found_lower
             THEN counter_inc_all(keyword_counter(front(js)), keywords_in(title))
             ELSE keyword_counter(front(js))

Digits == <<"0","1","2","3","4","5","6","7","8","9">>

\* Mutant of analyze_job_data: unique_companies and unique_locations are
\* taken from the top-10 views.
analyze_job_data_unique_of_view(js, now) ==
    IF Len(js) = 0 THEN <<>>
    ELSE [ total_jobs       |-> Len(js),
           extraction_date  |-> strftime(now),
           companies        |-> most_common(company_counter(js), TopK),
           locations        |-> most_common(location_counter(js), TopK),
           posting_times    |-> most_common(time_counter(js), TopK),
           title_keywords   |-> most_common(keyword_counter(js), TopK),
           unique_companies |-> Len(most_common(company_counter(js), TopK)),
           unique_locations |-> Len(most_common(location_counter(js), TopK)) ]

\* Mutant of analyze_job_data: the time of the call is counted as one more
\* posting time.
analyze_job_data_stamped(js, now) ==
    IF Len(js) = 0 THEN <<>>
    ELSE [ total_jobs       |-> Len(js),
           extraction_date  |-> strftime(now),
           companies        |-> most_common(company_counter(js), TopK),
           locations        |-> most_common(location_counter(js), TopK),
           posting_times    |-> most_common(
                                   counter_inc(time_counter(js),
                                               <<Digits[strftime(now) + 1]>>),
                                   TopK),
           title_keywords   |-> most_common(keyword_counter(js), TopK),
           unique_companies |-> Len(company_counter(js)),
           unique_locations |-> Len(location_counter(js)) ]

\* analyze_job_data(jobs), called when the clock reads now.  The empty
\* mapping {} is the empty function <<>>.
analyze_job_data(js, now) ==
    IF Len(js) = 0 THEN <<>>
    ELSE [ total_jobs       |-> Len(js),
           extraction_date  |-> strftime(now),
           companies        |-> most_common(company_counter(js), TopK),
           locations        |-> most_common(location_counter(js), TopK),
           posting_times    |-> most_common(time_counter(js), TopK),
           title_keywords   |-> most_common(keyword_counter(js), TopK),
           unique_companies |-> Len(company_counter(js)),
           unique_locations |-> Len(location_counter(js)) ]

-----------------------------------------------------------------------------
(* The record sequences analyze_job_data is run on.  A record is a dict    *)
(* as extract_job_listings builds it (title, company, location and         *)
(* extracted_at always, posted_time only when a time element was found),   *)
(* or one read back from a saved file, which may lack any key.             *)

Acme == <<"A","c","m","e">>
Beta == <<"B","e","t","a">>
Pune == <<"P","u","n","e">>
Remote == <<"R","e","m","o","t","e">>
OneDayAgo == <<"1"," ","d","a","y"," ","a","g","o">>

JobSenior ==
    [ title |-> <<"S","e","n","i","o","r"," ","M","L"," ","E","n","g","i","n","e","e","r">>,
      company |-> Acme, location |-> Pune, posted_time |-> OneDayAgo,
      extracted_at |-> 0 ]
JobML ==
    [ title |-> <<"M","L"," ","E","n","g","i","n","e","e","r">>,
      company |-> Acme, location |-> Remote, extracted_at |-> 0 ]
JobJunior ==
    [ title |-> <<"J","u","n","i","o","r"," ","D","a","t","a"," ","A","n","a","l","y","s","t">>,
      company |-> Beta, location |-> Pune, posted_time |-> <<>>,
      extracted_at |-> 0 ]
\* a card on which no title, company or location strategy matched
JobNotFound ==
    [ title |-> TitleNotFound, company |-> CompanyNotFound,
      location |-> LocationNotFound, extracted_at |-> 0 ]
\* a saved record without company, location and extracted_at
JobSaved ==
    [ title |-> <<>>, posted_time |-> OneDayAgo ]

SampleJobs == {JobSenior, JobML, JobJunior, JobNotFound, JobSaved}

\* The spec's end-to-end scenario.
Scenario == <<JobSenior, JobML, JobJunior>>

\* The k-th record of a run of records that share no company, location or
\* posting time.
FreshJob(k) ==
    [ title |-> <<"M","a","n","a","g","e","r">>,
      company |-> <<"K", LowerCase[k]>>,
      location |-> <<"L", LowerCase[k]>>,
      posted_time |-> <<"T", LowerCase[k]>>,
      extracted_at |-> 0 ]

FreshRun(n) == [k \in 1..n |-> FreshJob(k)]

SeqsUpTo(S, n) == UNION {[1..m -> S] : m \in 0..n}

Heads == SeqsUpTo(SampleJobs, MaxHead) \cup {Scenario}

\* What follows the run: nothing, its last record once more, or a sample.
Tails(n) == {<<>>, <<JobJunior>>} \cup (IF n > 0 THEN {<<FreshJob(n)>>} ELSE {})

JobSeqs ==
    UNION { { h \o FreshRun(n) \o t : t \in Tails(n) } :
            h \in Heads, n \in 0..MaxFresh }

InitAgg ==
    /\ jobs \in JobSeqs
    /\ first = NoneV
    /\ second = NoneV
    /\ clock = 0
    /\ a_pc = "input"
    /\ BatchIdle
    /\ ScraperIdle
    /\ SummaryIdle
    /\ AutoIdle
    /\ ReportIdle

\* The first call of analyze_job_data(jobs).
AnalyzeFirst ==
    /\ a_pc = "input"
    /\ first' = Some(analyze_job_data(jobs, clock))
    /\ a_pc' = "once"
    /\ UNCHANGED <<jobs, second, clock, batchVars, scraperVars, summaryVars, autoVars, reportVars>>

\* Time passes between the two calls.
Tick ==
    /\ a_pc = "once"
    /\ clock < MaxClock
    /\ clock' = clock + 1
    /\ UNCHANGED <<jobs, first, second, a_pc, batchVars, scraperVars, summaryVars, autoVars, reportVars>>

\* The second call, on the same record sequence.
AnalyzeSecond ==
    /\ a_pc = "once"
    /\ second' = Some(analyze_job_data(jobs, clock))
    /\ a_pc' = "twice"
    /\ UNCHANGED <<jobs, first, clock, batchVars, scraperVars, summaryVars, autoVars, reportVars>>

NextAgg == AnalyzeFirst \/ Tick \/ AnalyzeSecond

SpecAgg == InitAgg /\ [][NextAgg]_vars

-----------------------------------------------------------------------------
(* Properties of analyze_job_data, stated on the input sequence itself.    *)

\* The value record i carries for a field, as dict.get reads it.
FieldValue(i, key) == get(jobs[i], key, Unknown)

FieldValues(key) == {FieldValue(i, key) : i \in 1..Len(jobs)}

\* How many input records carry value v in the field.
Occurrences(key, v) ==
    Cardinality({i \in 1..Len(jobs) : FieldValue(i, key) = v})

\* The position of the first input record that carries value v in the field.
FirstSeen(key, v) ==
    CHOOSE i \in 1..Len(jobs) :
        /\ FieldValue(i, key) = v
        /\ \A j \in 1..(i - 1) : FieldValue(j, key) # v

\* The value a table leaves out: the field's sentinel, the empty posting time.
Excluded(key) ==
    CASE key = "company" -> CompanyNotFound
      [] key = "location" -> LocationNotFound
      [] OTHER -> <<>>

\* The keys of the full frequency table of a field.
FullKeys(key) == FieldValues(key) \ {Excluded(key)}

ViewKeys(view) == {view[i][1] : i \in 1..Len(view)}

RECURSIVE SumCounts(_)
SumCounts(view) ==
    IF Len(view) = 0 THEN 0 ELSE view[1][2] + SumCounts(Tail(view))

Analyzed == a_pc # "input" /\ Len(jobs) > 0

TopViewOK(view, key) ==
    /\ Len(view) <= 10
    /\ \A i \in 1..Len(view) : view[i][2] = Occurrences(key, view[i][1])
    /\ \A i, j \in 1..Len(view) :
          i < j =>
             \/ view[i][2] > view[j][2]
             \/ /\ view[i][2] = view[j][2]
                /\ FirstSeen(key, view[i][1]) < FirstSeen(key, view[j][1])
    /\ \A v \in FullKeys(key) \ ViewKeys(view) :
          \A i \in 1..Len(view) : Occurrences(key, v) <= view[i][2]

\* C6: each of the company, location and posting-time views holds at most
\* 10 entries, is ordered by descending count, lists keys of equal count in
\* the order they were first encountered in the input, and leaves out no key
\* whose count is strictly greater than that of a key it includes.
C6_TopTenStableOrder ==
    Analyzed =>
        /\ TopViewOK(first[1].companies, "company")
        /\ TopViewOK(first[1].locations, "location")
        /\ TopViewOK(first[1].posting_times, "posted_time")

\* C6 witness: a view cut to 10 entries out of more than 10 keys, holding a
\* tie and a key that outranks keys encountered before it.
C6_Witness ==
    /\ Analyzed
    /\ Cardinality(FullKeys("company")) > 10
    /\ Len(first[1].companies) = 10
    /\ \E i, j \in 1..10 :
          /\ i < j
          /\ first[1].companies[i][2] = first[1].companies[j][2]
    /\ \E i, j \in 1..10 :
          /\ i < j
          /\ FirstSeen("company", first[1].companies[i][1])
                > FirstSeen("company", first[1].companies[j][1])

SentinelFree(view, key, unique, sentinel) ==
    /\ sentinel \notin ViewKeys(view)
    /\ \A i \in 1..Len(view) : view[i][2] = Occurrences(key, view[i][1])
    /\ unique = Cardinality({v \in FieldValues(key) : v # sentinel})
    /\ Len(view) = unique =>
          SumCounts(view)
             = Cardinality({i \in 1..Len(jobs) : FieldValue(i, key) # sentinel})

\* C7: a record whose company (location) is the 'not found' sentinel adds 0
\* to every count of the company (location) table and is not counted in
\* unique_companies (unique_locations), and is still counted in total_jobs.
C7_SentinelExcluded ==
    Analyzed =>
        /\ first[1].total_jobs = Len(jobs)
        /\ SentinelFree(first[1].companies, "company",
                        first[1].unique_companies, CompanyNotFound)
        /\ SentinelFree(first[1].locations, "location",
                        first[1].unique_locations, LocationNotFound)

\* C7 witness: an analysed input with a sentinel record among real ones.
C7_Witness ==
    /\ Analyzed
    /\ \E i \in 1..Len(jobs) :
          /\ FieldValue(i, "company") = CompanyNotFound
          /\ FieldValue(i, "location") = LocationNotFound
    /\ first[1].unique_companies > 0
    /\ first[1].unique_locations > 0
    /\ first[1].total_jobs > SumCounts(first[1].companies)

\* C8: unique_companies and unique_locations are the number of keys of the
\* full frequency table, not of the top-10 view; with more than 10 distinct
\* companies unique_companies exceeds the number of entries of 'companies'.
C8_UniqueOfFullTable ==
    Analyzed =>
        /\ first[1].unique_companies = Cardinality(FullKeys("company"))
        /\ first[1].unique_locations = Cardinality(FullKeys("location"))
        /\ Cardinality(FullKeys("company")) > 10 =>
              first[1].unique_companies > Len(first[1].companies)
        /\ Cardinality(FullKeys("location")) > 10 =>
              first[1].unique_locations > Len(first[1].locations)

\* C8 witness: more than 10 distinct companies and locations.
C8_Witness ==
    /\ Analyzed
    /\ Cardinality(FullKeys("company")) > 10
    /\ Cardinality(FullKeys("location")) > 10
    /\ first[1].unique_companies > Len(first[1].companies)

Senior == <<"s","e","n","i","o","r">>
Junior == <<"j","u","n","i","o","r">>
Engineer == <<"e","n","g","i","n","e","e","r">>
Analyst == <<"a","n","a","l","y","s","t">>

AsSet(view) == {view[i] : i \in 1..Len(view)}

\* C10 as stated: for the scenario's three records title_keywords is
\* exactly {senior:1, junior:1}, companies is {Acme:2, Beta:1} and
\* unique_companies is 2.
C10_Original_Scenario ==
    (a_pc # "input" /\ jobs = Scenario) =>
        /\ AsSet(first[1].title_keywords) = {<<Senior, 1>>, <<Junior, 1>>}
        /\ AsSet(first[1].companies) = {<<Acme, 2>>, <<Beta, 1>>}
        /\ first[1].unique_companies = 2

\* C10 amended: for the scenario's three records title_keywords is
\* {engineer:2, senior:1, analyst:1, junior:1}, in that order, companies is
\* {Acme:2, Beta:1} and unique_companies is 2.
C10_ScenarioWithVocabulary ==
    (a_pc # "input" /\ jobs = Scenario) =>
        /\ first[1].title_keywords
              = << <<Engineer, 2>>, <<Senior, 1>>, <<Analyst, 1>>, <<Junior, 1>> >>
        /\ first[1].companies = << <<Acme, 2>>, <<Beta, 1>> >>
        /\ first[1].unique_companies = 2

\* C10 witness: the scenario has been analysed.
C10_Witness ==
    /\ a_pc # "input"
    /\ jobs = Scenario
    /\ Len(first[1].title_keywords) = 4

-----------------------------------------------------------------------------
(* linkedin_job_reporter_ui.py: extract_job_listings                       *)

\* What a lookup inside a page or a card can give: no such element, an
\* element whose text cannot be read (the reference went stale), or an
\* element with its text, its tag name and its href attribute (NoneV when
\* the attribute is missing).
NoSuchElement == [kind |-> "NoSuchElementException"]
StaleElement == [kind |-> "StaleElementReferenceException"]
Element(text, tag_name, href) ==
    [kind |-> "element", text |-> text, tag_name |-> tag_name, href |-> href]

\* card.find_element(By.CSS_SELECTOR, selector): a card is a function from
\* the selectors that match inside it to what they give.
find_element(card, selector) ==
    IF selector \in DOMAIN card THEN card[selector] ELSE NoSuchElement

job_card_selectors == <<
    ".jobs-search-results__list-item",
    ".job-card-container",
    ".jobs-search-results-list__item",
    "[data-job-id]",
    ".job-card-list" >>

title_selectors == <<
    ".base-search-card__title",
    ".job-card-list__title",
    ".jobs-unified-top-card__job-title",
    ".job-card-container__link",
    "h3 a",
    ".job-card-list__title-link",
    ".job-card-list__title a" >>

full_link_selector == "a.base-card__full-link, a[href*='/jobs/view/']"

company_selectors == <<
    ".artdeco-entity-lockup__subtitle",
    ".base-search-card__subtitle",
    ".job-card-container__company-name",
    ".job-card-list__subtitle",
    ".job-card-container__subtitle",
    ".artdeco-entity-lockup__subtitle span",
    "h4",
    ".job-card-list__company-name" >>

location_selectors == <<
    ".job-search-card__location",
    ".artdeco-entity-lockup__caption",
    ".job-card-container__metadata-item",
    ".jobs-unified-top-card__bullet",
    ".job-card-container__metadata-wrapper",
    ".job-card-list__metadata",
    ".job-card-container__secondary-description" >>

time_selectors == <<
    ".job-card-container__metadata-item time",
    ".jobs-unified-top-card__subtitle-secondary-grouping time",
    ".job-card-list__metadata time",
    "time" >>

desc_selectors == <<
    ".job-card-list__footer-wrapper",
    ".job-card-container__snippet",
    ".job-card-list__snippet" >>

\* The words that mark a company candidate as a job title.
company_title_words == <<
    <<"a","n","a","l","y","s","t">>,
    <<"e","n","g","i","n","e","e","r">>,
    <<"m","a","n","a","g","e","r">>,
    <<"d","e","v","e","l","o","p","e","r">>,
    <<"s","p","e","c","i","a","l","i","s","t">>,
    <<"i","n","t","e","r","n">>,
    <<"a","s","s","o","c","i","a","t","e">> >>

\* The tokens that mark a location candidate as a posting time.
location_time_words == <<
    <<"a","g","o">>,
    <<"h","o","u","r">>,
    <<"d","a","y">>,
    <<"w","e","e","k">>,
    <<"m","o","n","t","h">>,
    <<"y","e","a","r">>,
    <<"p","o","s","t","e","d">>,
    <<"w","i","t","h","i","n">> >>

\* A company candidate must be shorter than this.
CompanyMaxLen == 100
\* The description snippet keeps this many characters.
DescriptionCut == 200
Ellipsis == <<".", ".", ".">>

\* job_data[key] = value
Put(job_data, key, value) ==
    [k \in DOMAIN job_data \cup {key} |-> IF k = key THEN value ELSE job_data[k]]

\* text.strip() followed by ' '.join(text.split())
normalise(text) == join(split(strip(text)))

\* Python truthiness of a text or None: None and '' are both false.
truthy(value) == value # NoneV

\* Mutant of slice_to: the list is not cut.
slice_to_all(list, n) == list

\* list[:n]
slice_to(list, n) ==
    IF n >= 0 THEN SubSeq(list, 1, Min(Len(list), n))
    ELSE SubSeq(list, 1, IF Len(list) + n > 0 THEN Len(list) + n ELSE 0)

\* The card-selector loop: the cards of the first selector whose wait
\* returns any; a timed-out wait moves on to the next selector, any other
\* error leaves the loop and the function.
RECURSIVE find_job_cards(_, _)
find_job_cards(dom, k) ==
    IF k > Len(job_card_selectors) THEN [kind |-> "elements", cards |-> <<>>]
    ELSE LET found == dom[job_card_selectors[k]]
         IN  IF found.kind = "TimeoutException" THEN find_job_cards(dom, k + 1)
             ELSE IF found.kind = "elements"
             THEN IF found.cards # <<>> THEN found ELSE find_job_cards(dom, k + 1)
             ELSE found

\* The job link of a card whose title was found by `selector`: the href of
\* the title element when it is an anchor, else of the anchor inside it,
\* else of the card's full link; no key when none of them is there.
with_job_link(card, selector, title_element, job_data) ==
    IF title_element.tag_name = "a"
    THEN Put(job_data, "job_link", title_element.href)
    ELSE LET link_element == find_element(card, selector \o " a")
         IN  IF link_element.kind = "element"
             THEN Put(job_data, "job_link", link_element.href)
             ELSE LET full_link == find_element(card, full_link_selector)
                  IN  IF full_link.kind = "element"
                      THEN Put(job_data, "job_link", full_link.href)
                      ELSE job_data

\* The title loop, from the k-th title selector on.
RECURSIVE title_loop(_, _, _)
title_loop(card, job_data, k) ==
    IF k > Len(title_selectors) THEN job_data
    ELSE LET selector == title_selectors[k]
             title_element == find_element(card, selector)
         IN  IF title_element.kind # "element"
             THEN title_loop(card, job_data, k + 1)
             ELSE LET title_text == normalise(title_element.text)
                  IN  IF truthy(title_text)
                      THEN with_job_link(card, selector, title_element,
                                         Put(job_data, "title", title_text))
                      ELSE title_loop(card, job_data, k + 1)

\* Mutant of with_default: the sentinel is not stored.
without_default(job_data, key, sentinel) == job_data

\* if not job_data.get(key): job_data[key] = sentinel
with_default(job_data, key, sentinel) ==
    IF truthy(get(job_data, key, NoneV)) THEN job_data
    ELSE Put(job_data, key, sentinel)

\* Mutant of company_accepted: a candidate is not screened for job-title
\* words.
company_accepted_unscreened(company_text) ==
    /\ truthy(company_text)
    /\ Len(company_text) > 0
    /\ Len(company_text) < CompanyMaxLen

\* Mutant of company_accepted: a candidate of exactly the bound passes.
company_accepted_up_to_bound(company_text) ==
    /\ truthy(company_text)
    /\ Len(company_text) > 0
    /\ Len(company_text) <= CompanyMaxLen
    /\ ~contains_any(lower(company_text), company_title_words)

\* The test a company candidate has to pass.
company_accepted(company_text) ==
    /\ truthy(company_text)
    /\ Len(company_text) > 0
    /\ Len(company_text) < CompanyMaxLen
    /\ ~contains_any(lower(company_text), company_title_words)

RECURSIVE company_loop(_, _, _)
company_loop(card, job_data, k) ==
    IF k > Len(company_selectors) THEN job_data
    ELSE LET company_element == find_element(card, company_selectors[k])
         IN  IF company_element.kind # "element"
             THEN company_loop(card, job_data, k + 1)
             ELSE LET company_text == normalise(company_element.text)
                  IN  IF company_accepted(company_text)
                      THEN Put(job_data, "company", company_text)
                      ELSE company_loop(card, job_data, k + 1)

\* Mutant of location_accepted: a candidate is not screened for
\* relative-time tokens.
location_accepted_unscreened(location_text) == truthy(location_text)

\* The test a location candidate has to pass.
location_accepted(location_text) ==
    /\ truthy(location_text)
    /\ ~contains_any(lower(location_text), location_time_words)

RECURSIVE location_loop(_, _, _)
location_loop(card, job_data, k) ==
    IF k > Len(location_selectors) THEN job_data
    ELSE LET location_element == find_element(card, location_selectors[k])
         IN  IF location_element.kind # "element"
             THEN location_loop(card, job_data, k + 1)
             ELSE LET location_text == normalise(location_element.text)
                  IN  IF location_accepted(location_text)
                      THEN Put(job_data, "location", location_text)
                      ELSE location_loop(card, job_data, k + 1)

\* The posted time is the stripped text of the first time element that can
\* be read, empty or not.
RECURSIVE time_loop(_, _, _)
time_loop(card, job_data, k) ==
    IF k > Len(time_selectors) THEN job_data
    ELSE LET time_element == find_element(card, time_selectors[k])
         IN  IF time_element.kind # "element"
             THEN time_loop(card, job_data, k + 1)
             ELSE Put(job_data, "posted_time", strip(time_element.text))

\* The description is the first 200 characters of the stripped text of the
\* first snippet element that can be read, followed by "...".
RECURSIVE desc_loop(_, _, _)
desc_loop(card, job_data, k) ==
    IF k > Len(desc_selectors) THEN job_data
    ELSE LET desc_element == find_element(card, desc_selectors[k])
         IN  IF desc_element.kind # "element"
             THEN desc_loop(card, job_data, k + 1)
             ELSE Put(job_data, "description",
                      slice_to(strip(desc_element.text), DescriptionCut) \o Ellipsis)

\* Mutant of extract_card: the record is appended as it is after the title
\* loop.
extract_card_partial(card, now) == title_loop(card, <<>>, 1)

\* The body of the card loop: the record appended for one card.
extract_card(card, now) ==
    LET titled == with_default(title_loop(card, <<>>, 1), "title", TitleNotFound)
        with_company == with_default(company_loop(card, titled, 1), "company", CompanyNotFound)
        with_location == with_default(location_loop(card, with_company, 1), "location", LocationNotFound)
        with_time == time_loop(card, with_location, 1)
        with_desc == desc_loop(card, with_time, 1)
    IN  Put(with_desc, "extracted_at", strftime(now))

-----------------------------------------------------------------------------
(* The pages extract_job_listings is run on.                               *)

\* Most cards on a page.
MaxCards == 3
\* The smaller of the two max_jobs arguments drawn.
SmallMaxJobs == 2
\* The default of max_jobs.
DefaultMaxJobs == 50

ViewHref == <<"/","j","o","b","s","/","v","i","e","w","/","1">>
BlankText == <<" ","\n">>
Filler(n) == [i \in 1..n |-> "x"]

\* The title part of a card.
TitleParts == {
    <<>>,
    \* a heading with an anchor inside it
    (".base-search-card__title" :> Element(<<" "," ","M","L"," ","\n"," ","E","n","g","i","n","e","e","r"," ">>, "h3", NoneV))
        @@ (".base-search-card__title a" :> Element(<<>>, "a", ViewHref)),
    \* a blank heading, then an anchor that is the title
    (".base-search-card__title" :> Element(BlankText, "h3", NoneV))
        @@ ("h3 a" :> Element(<<"D","a","t","a"," ","A","n","a","l","y","s","t">>, "a", ViewHref)),
    \* an anchor without href
    (".job-card-container__link" :> Element(<<"J","u","n","i","o","r"," ","D","e","v">>, "a", NoneV)),
    \* a heading whose only link is the card's full link
    (".job-card-list__title" :> Element(<<"S","e","n","i","o","r"," ","M","a","n","a","g","e","r">>, "div", NoneV))
        @@ (full_link_selector :> Element(<<>>, "a", ViewHref)),
    \* a heading and no link at all
    (".job-card-list__title" :> Element(<<"L","e","a","d">>, "div", NoneV)),
    \* nothing but unreadable or empty title elements
    (".base-search-card__title" :> StaleElement)
        @@ (".job-card-list__title" :> Element(<<>>, "h3", NoneV))
        @@ (".job-card-list__title a" :> Element(BlankText, "a", ViewHref)) }

\* The company part of a card.
CompanyParts == {
    <<>>,
    (".artdeco-entity-lockup__subtitle" :> Element(<<"A","c","m","e"," ","C","o","r","p">>, "div", NoneV)),
    (".artdeco-entity-lockup__subtitle" :> Element(<<"S","e","n","i","o","r"," ","E","n","g","i","n","e","e","r"," ","T","e","a","m">>, "div", NoneV))
        @@ ("h4" :> Element(<<" ","A","c","m","e"," ","\t"," ","C","o","r","p","\n">>, "h4", NoneV)),
    (".base-search-card__subtitle" :> Element(<<>>, "div", NoneV))
        @@ (".job-card-container__company-name" :> StaleElement)
        @@ (".job-card-list__company-name" :> Element(<<"B","e","t","a">>, "span", NoneV)),
    (".job-card-list__subtitle" :> Element(<<"H","i","r","i","n","g"," ","M","A","N","A","G","E","R">>, "div", NoneV))
        @@ ("h4" :> Element(BlankText, "h4", NoneV)),
    ("h4" :> Element(Filler(CompanyMaxLen - 1), "h4", NoneV)),
    ("h4" :> Element(Filler(CompanyMaxLen), "h4", NoneV))
        @@ (".job-card-list__company-name" :> Element(<<"B","e","t","a">>, "span", NoneV)),
    \* candidates one over the bound, at the bound and one under it
    (".artdeco-entity-lockup__subtitle" :> Element(Filler(CompanyMaxLen + 1), "div", NoneV))
        @@ ("h4" :> Element(Filler(CompanyMaxLen), "h4", NoneV))
        @@ (".job-card-list__company-name" :> Element(Filler(CompanyMaxLen - 1), "span", NoneV)) }

\* The location part of a card.
LocationParts == {
    <<>>,
    (".job-search-card__location" :> Element(<<"B","e","n","g","a","l","u","r","u",","," ","I","n","d","i","a">>, "span", NoneV)),
    (".job-search-card__location" :> Element(<<"3"," ","d","a","y","s"," ","a","g","o">>, "span", NoneV))
        @@ (".job-card-container__metadata-item" :> Element(<<" ","P","u","n","e"," ">>, "li", NoneV)),
    (".artdeco-entity-lockup__caption" :> Element(<<"P","o","s","t","e","d"," ","1"," ","W","E","E","K"," ","b","a","c","k">>, "div", NoneV))
        @@ (".job-card-list__metadata" :> StaleElement) }

\* The posting-time part of a card.
TimeParts == {
    <<>>,
    ("time" :> Element(<<" ","1"," ","d","a","y"," ","a","g","o","\n">>, "time", NoneV)),
    (".job-card-list__metadata time" :> StaleElement)
        @@ ("time" :> Element(BlankText, "time", NoneV)) }

\* The description part of a card.
DescParts == {
    <<>>,
    (".job-card-container__snippet" :> Element(<<" ","B","u","i","l","d"," ","m","o","d","e","l","s","."," ">>, "p", NoneV)),
    (".job-card-list__footer-wrapper" :> StaleElement)
        @@ (".job-card-list__snippet" :> Element(Filler(DescriptionCut + 1), "p", NoneV)) }

PlainTitle == (".job-card-list__title" :> Element(<<"L","e","a","d">>, "div", NoneV))
PlainCompany == (".artdeco-entity-lockup__subtitle" :> Element(<<"A","c","m","e"," ","C","o","r","p">>, "div", NoneV))
PlainLocation == (".job-search-card__location" :> Element(<<"B","e","n","g","a","l","u","r","u",","," ","I","n","d","i","a">>, "span", NoneV))

\* A card with every field, and a card with every field but the title.
PlainCard == PlainTitle @@ PlainCompany @@ PlainLocation
UntitledCard == PlainCompany @@ PlainLocation
PlainCards == {PlainCard, UntitledCard}

\* The plain card with one of its parts replaced, and the card with nothing.
VariedCards ==
    {part @@ PlainCompany @@ PlainLocation : part \in TitleParts}
    \cup {PlainTitle @@ part @@ PlainLocation : part \in CompanyParts}
    \cup {PlainTitle @@ PlainCompany @@ part : part \in LocationParts}
    \cup {PlainCard @@ part : part \in TimeParts \cup DescParts}
    \cup {<<>>}

\* The card lists of length n in which at most one card is a varied one.
RECURSIVE PlainLists(_)
PlainLists(n) ==
    IF n = 0 THEN {<<>>}
    ELSE {Append(cards, card) : cards \in PlainLists(n - 1), card \in PlainCards}

CardLists(n) ==
    PlainLists(n)
    \cup {[cards EXCEPT ![at] = card] :
            cards \in PlainLists(n), at \in 1..n, card \in VariedCards}

TimedOut == [kind |-> "TimeoutException"]
DriverError == [kind |-> "WebDriverException"]
Found(cards) == [kind |-> "elements", cards |-> cards]

\* The outcomes of the card selectors, in their order: the first `misses`
\* of them give `miss`, the next one gives `hit`, the others give `rest`.
Outcomes(misses, miss, hit, rest) ==
    [k \in 1..Len(job_card_selectors) |->
        IF k <= misses THEN miss
        ELSE IF k = misses + 1 THEN hit
        ELSE rest]

\* The page on which the k-th card selector gives outcomes[k].
PageOf(outcomes) ==
    [selector \in {job_card_selectors[k] : k \in 1..Len(job_card_selectors)} |->
        outcomes[CHOOSE k \in 1..Len(job_card_selectors) : job_card_selectors[k] = selector]]

Pages ==
    {PageOf(Outcomes(0, TimedOut, Found(cards), Found(<<UntitledCard>>))) :
        cards \in UNION {CardLists(n) : n \in 1..MaxCards}}
    \cup {PageOf(Outcomes(misses, TimedOut, Found(<<PlainCard, UntitledCard>>), Found(<<PlainCard>>))) :
            misses \in 1..(Len(job_card_selectors) - 1)}
    \cup {PageOf(Outcomes(Len(job_card_selectors), TimedOut, TimedOut, TimedOut)),
          PageOf(Outcomes(1, DriverError, Found(<<PlainCard>>), TimedOut)),
          PageOf(Outcomes(1, TimedOut, DriverError, Found(<<PlainCard>>))),
          PageOf(Outcomes(2, TimedOut, Found(<<UntitledCard, PlainCard, PlainCard>>),
                          Found(<<PlainCard>>)))}

-----------------------------------------------------------------------------
(* extract_job_listings as a state machine: the card-selector loop, one    *)
(* step per card, the return.                                              *)

InitBatch ==
    /\ page \in Pages
    /\ max_jobs \in {SmallMaxJobs, DefaultMaxJobs}
    /\ job_cards = <<>>
    /\ card_i = 0
    /\ card_jobs = <<>>
    /\ raised = {}
    /\ listings = NoneV
    /\ b_pc = "find"
    /\ clock = 0
    /\ AggIdle
    /\ ScraperIdle
    /\ SummaryIdle
    /\ AutoIdle
    /\ ReportIdle

\* The card-selector loop.  Without cards, or on an error other than a
\* timeout, the function returns the empty list.
FindCards ==
    /\ b_pc = "find"
    /\ LET found == find_job_cards(page, 1)
       IN  IF found.kind = "elements" /\ found.cards # <<>>
           THEN /\ job_cards' = found.cards
                /\ b_pc' = "cards"
                /\ UNCHANGED listings
           ELSE /\ listings' = Some(<<>>)
                /\ b_pc' = "returned"
                /\ UNCHANGED job_cards
    /\ UNCHANGED <<page, max_jobs, card_i, card_jobs, raised, aggVars, scraperVars, summaryVars, autoVars, reportVars>>

\* One pass of the card loop that reaches jobs.append(job_data).
ProcessCard ==
    /\ b_pc = "cards"
    /\ card_i < Len(slice_to(job_cards, max_jobs))
    /\ card_jobs' = Append(card_jobs, extract_card(job_cards[card_i + 1], clock))
    /\ card_i' = card_i + 1
    /\ UNCHANGED <<page, max_jobs, job_cards, raised, listings, b_pc, aggVars, scraperVars, summaryVars, autoVars, reportVars>>

\* One pass of the card loop that a statement outside the per-selector
\* handlers leaves with an exception: the per-card handler goes on to the
\* next card.
CardRaises ==
    /\ b_pc = "cards"
    /\ card_i < Len(slice_to(job_cards, max_jobs))
    /\ raised' = raised \cup {card_i + 1}
    /\ card_i' = card_i + 1
    /\ UNCHANGED <<page, max_jobs, job_cards, card_jobs, listings, b_pc, aggVars, scraperVars, summaryVars, autoVars, reportVars>>

\* return jobs
ReturnJobs ==
    /\ b_pc = "cards"
    /\ card_i = Len(slice_to(job_cards, max_jobs))
    /\ listings' = Some(card_jobs)
    /\ b_pc' = "returned"
    /\ UNCHANGED <<page, max_jobs, job_cards, card_i, card_jobs, raised, aggVars, scraperVars, summaryVars, autoVars, reportVars>>

NextBatch == FindCards \/ ProcessCard \/ CardRaises \/ ReturnJobs

SpecBatch == InitBatch /\ [][NextBatch]_vars

-----------------------------------------------------------------------------
(* Properties of extract_job_listings.                                     *)

\* The cards the card loop has visited, and those of them it appended a
\* record for.
Visited == 1..card_i
Appended == Visited \ raised

\* Where in card_jobs the record of an appended card is.
RecordAt(k) == k - Cardinality({j \in raised : j < k})

\* No character of the text is anything but whitespace.
IsBlank(text) == \A i \in 1..Len(text) : text[i] \in Whitespace

\* No title selector finds an element with readable, non-blank text.
TitleUnresolved(card) ==
    \A k \in 1..Len(title_selectors) :
        LET title_element == find_element(card, title_selectors[k])
        IN  title_element.kind = "element" => IsBlank(title_element.text)

\* The candidates a list of selectors offers in a card: the normalised
\* texts of the elements that can be read.
Candidates(card, selector_list) ==
    {normalise(find_element(card, selector_list[k]).text) :
        k \in {j \in 1..Len(selector_list) :
                  find_element(card, selector_list[j]).kind = "element"}}

Returned == b_pc = "returned" /\ job_cards # <<>>

CompleteWithDefaults(card, job_data) ==
    /\ {"title", "company", "location", "extracted_at"} \subseteq DOMAIN job_data
    /\ Len(job_data.title) > 0
    /\ Len(job_data.company) > 0
    /\ Len(job_data.location) > 0
    /\ \/ job_data.company = CompanyNotFound
       \/ /\ job_data.company \in Candidates(card, company_selectors)
          /\ company_accepted(job_data.company)
    /\ \/ job_data.location = LocationNotFound
       \/ /\ job_data.location \in Candidates(card, location_selectors)
          /\ location_accepted(job_data.location)

C5_CompleteWithDefaults ==
    /\ Len(card_jobs) = Cardinality(Appended)
    /\ \A k \in Appended : CompleteWithDefaults(job_cards[k], card_jobs[RecordAt(k)])
    /\ Returned => listings = Some(card_jobs)

C5_Witness ==
    /\ Returned
    /\ \E k \in raised : k < card_i
    /\ \E k \in Appended : listings[1][RecordAt(k)].company = CompanyNotFound
    /\ \E k \in Appended : listings[1][RecordAt(k)].location # LocationNotFound

-----------------------------------------------------------------------------
(* job_page_scraper.py: the selector catalogs and the resolvers             *)

VIEW_PAGE_SELECTORS == [
    title |-> <<
        ".top-card-layout__title",
        ".top-card-layout__title h1",
        "h1.top-card-layout__title",
        ".job-details-jobs-unified-top-card__job-title h1",
        ".job-details-jobs-unified-top-card__job-title" >>,
    company_name |-> <<
        ".top-card-layout__second-subline a.topcard__org-name-link",
        ".topcard__org-name-link",
        ".top-card-layout__second-subline a",
        ".job-details-jobs-unified-top-card__company-name",
        ".job-details-jobs-unified-top-card__company-name a" >>,
    location |-> <<
        ".top-card-layout__second-subline > div:first-child",
        ".topcard__flavor--bullet",
        ".job-details-jobs-unified-top-card__bullet" >>,
    description_container |-> <<
        ".description__text",
        ".jobs-description-content__text",
        ".jobs-description__content",
        ".job-details-jobs-unified-top-card__job-description",
        ".jobs-box__html-content" >>,
    description_show_more_button |-> <<
        ".description__footer-button",
        ".jobs-description__footer-button",
        ".jobs-description-content__footer button",
        "button[data-tracking-control-name='public_jobs_show-more-html-btn']" >>,
    criteria_list |-> <<
        ".description__job-criteria-list li",
        ".job-details-jobs-unified-top-card__job-insight",
        ".jobs-unified-top-card__job-insight",
        ".job-details-jobs-unified-top-card__job-insight-view-model" >> ]

SEARCH_PAGE_SELECTORS == [
    details_pane |-> <<
        ".scaffold-layout__detail",
        ".jobs-search__job-details",
        ".job-details-jobs-unified-top-card" >>,
    title |-> <<
        ".job-details-jobs-unified-top-card__job-title",
        ".job-details-jobs-unified-top-card__job-title h1",
        ".jobs-unified-top-card__job-title",
        ".jobs-unified-top-card__job-title h1" >>,
    company_name |-> <<
        "div.job-details-jobs-unified-top-card__primary-description-container a",
        ".job-details-jobs-unified-top-card__company-name",
        ".job-details-jobs-unified-top-card__company-name a",
        ".jobs-unified-top-card__subtitle-primary-grouping a" >>,
    location |-> <<
        "div.job-details-jobs-unified-top-card__primary-description-container > div:nth-child(2)",
        ".job-details-jobs-unified-top-card__bullet",
        ".jobs-unified-top-card__bullet" >>,
    description_container |-> <<
        ".jobs-description-content__text",
        ".jobs-description__content",
        ".job-details-jobs-unified-top-card__job-description",
        ".jobs-box__html-content" >>,
    description_show_more_button |-> <<
        ".jobs-description__footer-button",
        ".jobs-description-content__footer button",
        "button[data-tracking-control-name='public_jobs_show-more-html-btn']" >>,
    criteria_list |-> <<
        ".job-details-jobs-unified-top-card__job-insight",
        ".jobs-unified-top-card__job-insight",
        ".job-details-jobs-unified-top-card__job-insight-view-model" >> ]

\* "/jobs/search/" and "/jobs/view/"
SearchMark == <<"/","j","o","b","s","/","s","e","a","r","c","h","/">>
ViewMark == <<"/","j","o","b","s","/","v","i","e","w","/">>

\* Mutant of detect_page_type: the view mark is looked for first.
detect_page_type_view_first(url) ==
    IF contains(url, ViewMark) THEN "view"
    ELSE "search"

\* _detect_page_type: the search mark is looked for first; a URL with
\* neither mark is taken for a search page.
detect_page_type(url) ==
    IF contains(url, SearchMark) THEN "search"
    ELSE IF contains(url, ViewMark) THEN "view"
    ELSE "search"

\* __init__: the catalog that goes with the page type.
catalog_of(type) ==
    IF type = "search" THEN SEARCH_PAGE_SELECTORS ELSE VIEW_PAGE_SELECTORS

\* A node of the document: its visible text, the text a click on 'show
\* more' adds to it, its innerHTML (NoneV when the attribute cannot be
\* had) and whether it is displayed.  StaleElement is a node that went
\* stale after it was located: reading it raises.
Node(text, more, inner_html, displayed) ==
    [kind |-> "element", text |-> text, more |-> more,
     inner_html |-> inner_html, displayed |-> displayed]

\* element.text
text_of(node, is_expanded) ==
    IF is_expanded THEN node.text \o node.more ELSE node.text

\* driver.find_elements(By.CSS_SELECTOR, selector)
find_elements(document, selector) ==
    IF selector \in DOMAIN document THEN document[selector] ELSE <<>>

\* self.selectors.get(selector_key, []); every value of both catalogs is a
\* list, so the branch for a single string is never taken.
strategies(catalog, key) == get(catalog, key, <<>>)

\* The loop of _get_element_text_with_fallbacks from the k-th selector on:
\* the index of the selector it returns at, 0 when it runs out.  A wait
\* that finds no node times out, a node that cannot be read raises, and a
\* node whose stripped text is empty is passed over; each goes on to the
\* next selector.
\* Mutant of text_hit: a wait that times out or a node that cannot be read
\* ends the loop.
RECURSIVE text_hit_until_failure(_, _, _, _)
text_hit_until_failure(document, selector_list, is_expanded, k) ==
    IF k > Len(selector_list) THEN 0
    ELSE LET nodes == find_elements(document, selector_list[k])
         IN  IF nodes = <<>> THEN 0
             ELSE IF nodes[1].kind # "element" THEN 0
             ELSE IF truthy(strip(text_of(nodes[1], is_expanded))) THEN k
             ELSE text_hit_until_failure(document, selector_list, is_expanded, k + 1)

RECURSIVE text_hit(_, _, _, _)
text_hit(document, selector_list, is_expanded, k) ==
    IF k > Len(selector_list) THEN 0
    ELSE LET nodes == find_elements(document, selector_list[k])
         IN  IF nodes = <<>> THEN text_hit(document, selector_list, is_expanded, k + 1)
             ELSE IF nodes[1].kind # "element"
             THEN text_hit(document, selector_list, is_expanded, k + 1)
             ELSE IF truthy(strip(text_of(nodes[1], is_expanded))) THEN k
             ELSE text_hit(document, selector_list, is_expanded, k + 1)

\* Mutant of get_element_text_with_fallbacks: the text of the first node
\* that can be read is returned, empty or not.
get_element_text_first_present(catalog, document, is_expanded, key) ==
    LET selector_list == strategies(catalog, key)
        readable == {k \in 1..Len(selector_list) :
                        /\ find_elements(document, selector_list[k]) # <<>>
                        /\ find_elements(document, selector_list[k])[1].kind = "element"}
    IN  IF readable = {} THEN NoneV
        ELSE strip(text_of(find_elements(document, selector_list[least(readable)])[1],
                           is_expanded))

\* _get_element_text_with_fallbacks(selector_key)
get_element_text_with_fallbacks(catalog, document, is_expanded, key) ==
    LET selector_list == strategies(catalog, key)
        hit == text_hit(document, selector_list, is_expanded, 1)
    IN  IF hit = 0 THEN NoneV
        ELSE strip(text_of(find_elements(document, selector_list[hit])[1], is_expanded))

\* The selectors _get_element_text_with_fallbacks asks the document for.
text_queries(catalog, document, is_expanded, key) ==
    LET selector_list == strategies(catalog, key)
        hit == text_hit(document, selector_list, is_expanded, 1)
    IN  IF hit = 0 THEN selector_list ELSE SubSeq(selector_list, 1, hit)

-----------------------------------------------------------------------------
(* The text resolver on its own: any strategy list, any document.          *)

\* Longest strategy list.
MaxStrategies == 3

ToySelectors == {".a", ".b", ".c"}

TextNode(text) == Node(text, <<>>, text, TRUE)

\* What one selector can match: nothing, a stale node, a node with empty,
\* blank, plain or padded text, an empty node followed by a full one, a
\* full node followed by a stale one, and full nodes around a blank one.
ToyMatches == {
    <<>>,
    <<StaleElement>>,
    <<TextNode(<<>>)>>,
    <<TextNode(BlankText)>>,
    <<TextNode(<<"A","c","m","e">>)>>,
    <<TextNode(<<" ","H","i"," ","\n">>)>>,
    <<TextNode(<<>>), TextNode(<<"B","e","t","a">>)>>,
    <<TextNode(<<"P","u","n","e">>), StaleElement>>,
    <<TextNode(<<" ","O","n","-","s","i","t","e">>), TextNode(BlankText), TextNode(<<"R","e","m","o","t","e","\n">>)>> }

ToyDocuments == [ToySelectors -> ToyMatches]

ToyCatalogs ==
    {[strategy |-> selector_list] : selector_list \in SeqsUpTo(ToySelectors, MaxStrategies)}

InitResolve ==
    /\ \/ selectors \in ToyCatalogs /\ selector_key = "strategy"
       \/ selectors = [strategy |-> <<".a">>] /\ selector_key = "company_name"
    /\ doc \in ToyDocuments
    /\ job_url = <<>>
    /\ page_type = "search"
    /\ expanded = FALSE
    /\ frame = <<>>
    /\ queries = <<>>
    /\ result = <<>>
    /\ resolved = NoneV
    /\ driver_calls = <<>>
    /\ r_pc = "resolve"
    /\ clock = 0
    /\ AggIdle
    /\ BatchIdle
    /\ SummaryIdle
    /\ AutoIdle
    /\ ReportIdle

\* One call of _get_element_text_with_fallbacks(selector_key).
ResolveText ==
    /\ r_pc = "resolve"
    /\ resolved' = Some(get_element_text_with_fallbacks(selectors, doc, expanded, selector_key))
    /\ queries' = queries \o text_queries(selectors, doc, expanded, selector_key)
    /\ r_pc' = "resolved"
    /\ UNCHANGED <<job_url, page_type, selectors, doc, expanded, frame, result,
                   selector_key, driver_calls,
                   aggVars, batchVars, summaryVars, autoVars, reportVars>>


\* The strategies of the call, and those of them that yield text: the
\* first node the selector matches can be read and its text has a character
\* that is not whitespace.
Strategies == strategies(selectors, selector_key)

Yields(k) ==
    LET nodes == find_elements(doc, Strategies[k])
    IN  /\ nodes # <<>>
        /\ nodes[1].kind = "element"
        /\ ~IsBlank(nodes[1].text)

Yielding == {k \in 1..Len(Strategies) : Yields(k)}

\* C1: the text resolver returns the stripped text of the first strategy,
\* in list order, whose element has non-empty text after stripping; a
\* present element with empty or blank text is passed over; None is
\* returned only when no strategy yields text.
C1_FirstNonEmptyText ==
    r_pc = "resolved" =>
        IF Yielding = {} THEN resolved = Some(NoneV)
        ELSE LET text == find_elements(doc, Strategies[least(Yielding)])[1].text
                 returned == resolved[1]
             IN  /\ returned = strip(text)
                 /\ Len(returned) > 0
                 /\ returned[1] \notin Whitespace
                 /\ returned[Len(returned)] \notin Whitespace
                 /\ contains(text, returned)

\* Strategies ['.a', '.b'] with .a present and empty and .b = 'Acme'.
C1_Witness ==
    /\ r_pc = "resolved"
    /\ Strategies = <<".a", ".b">>
    /\ doc[".a"] = <<TextNode(<<>>)>>
    /\ doc[".b"] = <<TextNode(<<"A","c","m","e">>)>>
    /\ resolved = Some(<<"A","c","m","e">>)

-----------------------------------------------------------------------------
(* job_page_scraper.py: the other resolvers and the steps of run           *)

\* The first index from k on at which `stops` holds, 0 when there is none:
\* a loop over a selector list that leaves at its first success.
RECURSIVE first_stop(_, _, _)
first_stop(stops(_), n, k) ==
    IF k > n THEN 0
    ELSE IF stops(k) THEN k
    ELSE first_stop(stops, n, k + 1)

\* The selectors a loop asked for when it stopped at `hit`.
asked(selector_list, hit) ==
    IF hit = 0 THEN selector_list ELSE SubSeq(selector_list, 1, hit)

\* The details-pane loop of run: the wait for a selector succeeds when the
\* first node it matches is displayed; no node, a stale node or a hidden
\* node lets the wait time out, and the loop goes on.
pane_visible(document, selector) ==
    LET nodes == find_elements(document, selector)
    IN  /\ nodes # <<>>
        /\ nodes[1].kind = "element"
        /\ nodes[1].displayed

pane_hit(catalog, document) ==
    LET selector_list == strategies(catalog, "details_pane")
    IN  first_stop(LAMBDA k : pane_visible(document, selector_list[k]),
                   Len(selector_list), 1)

\* _expand_description: the first button that is there and can be scrolled
\* to and clicked ends the loop; a missing button, or one that raises when
\* the scripts run on it, moves on to the next selector.
button_clicked(document, selector) ==
    LET nodes == find_elements(document, selector)
    IN  nodes # <<>> /\ nodes[1].kind = "element"

\* A call _expand_description makes on the driver, and whether it raised.
DriverCall(call, selector, has_raised) ==
    [call |-> call, selector |-> selector, raised |-> has_raised]

\* The two scripts run on a located button, in the order they are run.
DriverScripts == {"scrollIntoView", "click"}

\* Mutant of expand_calls: the loop goes on after a click.
RECURSIVE expand_calls_every_button(_, _, _, _)
expand_calls_every_button(document, selector_list, stale_at, k) ==
    IF k > Len(selector_list) THEN <<>>
    ELSE LET selector == selector_list[k]
             nodes == find_elements(document, selector)
             rest == expand_calls_every_button(document, selector_list, stale_at, k + 1)
         IN  IF nodes = <<>>
             THEN <<DriverCall("find_element", selector, TRUE)>> \o rest
             ELSE IF nodes[1].kind = "element"
             THEN <<DriverCall("find_element", selector, FALSE),
                    DriverCall("scrollIntoView", selector, FALSE),
                    DriverCall("click", selector, FALSE)>> \o rest
             ELSE <<DriverCall("find_element", selector, FALSE),
                    DriverCall("scrollIntoView", selector, TRUE)>> \o rest

\* The calls of the loop of _expand_description from the k-th selector on:
\* find_element, then the scroll script, then the click script, after
\* which the function returns; a call that raises ends the pass for its
\* selector and the loop goes on with the next one.
RECURSIVE expand_calls(_, _, _, _)
expand_calls(document, selector_list, stale_at, k) ==
    IF k > Len(selector_list) THEN <<>>
    ELSE LET selector == selector_list[k]
             nodes == find_elements(document, selector)
             rest == expand_calls(document, selector_list, stale_at, k + 1)
         IN  IF nodes = <<>>
             THEN <<DriverCall("find_element", selector, TRUE)>> \o rest
             ELSE IF nodes[1].kind = "element"
             THEN <<DriverCall("find_element", selector, FALSE),
                    DriverCall("scrollIntoView", selector, FALSE),
                    DriverCall("click", selector, FALSE)>>
             ELSE IF stale_at = "scrollIntoView"
             THEN <<DriverCall("find_element", selector, FALSE),
                    DriverCall("scrollIntoView", selector, TRUE)>> \o rest
             ELSE <<DriverCall("find_element", selector, FALSE),
                    DriverCall("scrollIntoView", selector, FALSE),
                    DriverCall("click", selector, TRUE)>> \o rest

expand_hit(catalog, document) ==
    LET selector_list == strategies(catalog, "description_show_more_button")
    IN  first_stop(LAMBDA k : button_clicked(document, selector_list[k]),
                   Len(selector_list), 1)

\* _get_element_html_with_fallbacks: the stripped innerHTML of the first
\* selector whose first node has an innerHTML that is not empty or blank.
html_found(document, selector) ==
    LET nodes == find_elements(document, selector)
    IN  /\ nodes # <<>>
        /\ nodes[1].kind = "element"
        /\ truthy(nodes[1].inner_html)
        /\ truthy(strip(nodes[1].inner_html))

html_hit(catalog, document, key) ==
    LET selector_list == strategies(catalog, key)
    IN  first_stop(LAMBDA k : html_found(document, selector_list[k]),
                   Len(selector_list), 1)

get_element_html_with_fallbacks(catalog, document, key) ==
    LET selector_list == strategies(catalog, key)
        hit == html_hit(catalog, document, key)
    IN  IF hit = 0 THEN NoneV
        ELSE strip(find_elements(document, selector_list[hit])[1].inner_html)

\* [elem.text.strip() for elem in elements if elem.text.strip()], when no
\* element of the list is stale.
stripped_texts(nodes, is_expanded) ==
    LET kept == SelectSeq(nodes, LAMBDA node : truthy(strip(text_of(node, is_expanded))))
    IN  [i \in 1..Len(kept) |-> strip(text_of(kept[i], is_expanded))]

all_readable(nodes) == \A i \in 1..Len(nodes) : nodes[i].kind = "element"

\* _get_multiple_elements_text: the non-empty stripped texts of the first
\* selector that matches nodes, all of them readable, at least one of them
\* with text.
texts_found(document, is_expanded, selector) ==
    LET nodes == find_elements(document, selector)
    IN  /\ nodes # <<>>
        /\ all_readable(nodes)
        /\ stripped_texts(nodes, is_expanded) # <<>>

multiple_hit(catalog, document, is_expanded, key) ==
    LET selector_list == strategies(catalog, key)
    IN  first_stop(LAMBDA k : texts_found(document, is_expanded, selector_list[k]),
                   Len(selector_list), 1)

\* Mutant of get_multiple_elements_text: the texts of every selector that
\* has any are put together.
RECURSIVE merged_texts(_, _, _, _)
merged_texts(document, selector_list, is_expanded, k) ==
    IF k > Len(selector_list) THEN <<>>
    ELSE (IF texts_found(document, is_expanded, selector_list[k])
          THEN stripped_texts(find_elements(document, selector_list[k]), is_expanded)
          ELSE <<>>)
         \o merged_texts(document, selector_list, is_expanded, k + 1)

get_multiple_elements_text_merged(catalog, document, is_expanded, key) ==
    merged_texts(document, strategies(catalog, key), is_expanded, 1)

get_multiple_elements_text(catalog, document, is_expanded, key) ==
    LET selector_list == strategies(catalog, key)
        hit == multiple_hit(catalog, document, is_expanded, key)
    IN  IF hit = 0 THEN <<>>
        ELSE stripped_texts(find_elements(document, selector_list[hit]), is_expanded)

\* The resolvers on their own: one call of one of them on a toy document.

\* One call of _get_element_html_with_fallbacks(selector_key).
ResolveHtml ==
    /\ r_pc = "resolve"
    /\ resolved' = Some(get_element_html_with_fallbacks(selectors, doc, selector_key))
    /\ queries' = queries \o asked(strategies(selectors, selector_key),
                                   html_hit(selectors, doc, selector_key))
    /\ r_pc' = "resolved_html"
    /\ UNCHANGED <<job_url, page_type, selectors, doc, expanded, frame, result,
                   selector_key, driver_calls,
                   aggVars, batchVars, summaryVars, autoVars, reportVars>>

\* One call of _get_multiple_elements_text(selector_key).
ResolveMultiple ==
    /\ r_pc = "resolve"
    /\ resolved' = Some(get_multiple_elements_text(selectors, doc, expanded, selector_key))
    /\ queries' = queries \o asked(strategies(selectors, selector_key),
                                   multiple_hit(selectors, doc, expanded, selector_key))
    /\ r_pc' = "resolved_multiple"
    /\ UNCHANGED <<job_url, page_type, selectors, doc, expanded, frame, result,
                   selector_key, driver_calls,
                   aggVars, batchVars, summaryVars, autoVars, reportVars>>

NextResolve == ResolveText \/ ResolveHtml \/ ResolveMultiple

SpecResolve == InitResolve /\ [][NextResolve]_vars

\* _extract_additional_info -------------------------------------------------

date_selectors == <<
    ".job-details-jobs-unified-top-card__primary-description-container time",
    ".jobs-unified-top-card__posted-date",
    ".job-details-jobs-unified-top-card__posted-date" >>

job_type_selectors == <<
    ".job-details-jobs-unified-top-card__job-insight span",
    ".jobs-unified-top-card__job-insight span" >>

job_type_keywords == <<
    <<"f","u","l","l","-","t","i","m","e">>, <<"p","a","r","t","-","t","i","m","e">>, <<"c","o","n","t","r","a","c","t">>, <<"i","n","t","e","r","n","s","h","i","p">> >>

seniority_keywords == <<
    <<"e","n","t","r","y"," ","l","e","v","e","l">>, <<"a","s","s","o","c","i","a","t","e">>, <<"m","i","d","-","s","e","n","i","o","r">>, <<"d","i","r","e","c","t","o","r">>, <<"e","x","e","c","u","t","i","v","e">> >>

\* The posted date is the stripped text, empty or not, of the first date
\* selector whose first node can be read.
date_hit(document) ==
    first_stop(LAMBDA k : button_clicked(document, date_selectors[k]),
               Len(date_selectors), 1)

with_posted_date(document, is_expanded, additional_info) ==
    IF date_hit(document) = 0 THEN additional_info
    ELSE Put(additional_info, "posted_date",
             strip(text_of(find_elements(document, date_selectors[date_hit(document)])[1],
                           is_expanded)))

\* The element loop of the job-type search from the i-th node on: the
\* stripped text of the first node that names a job type; NoneV when the
\* nodes run out or a stale node is met first.
RECURSIVE job_type_scan(_, _, _)
job_type_scan(nodes, is_expanded, i) ==
    IF i > Len(nodes) THEN NoneV
    ELSE IF nodes[i].kind # "element" THEN NoneV
    ELSE LET text == strip(text_of(nodes[i], is_expanded))
         IN  IF contains_any(lower(text), job_type_keywords) THEN Some(text)
             ELSE job_type_scan(nodes, is_expanded, i + 1)

\* The selector loop of the job-type search ends at the first selector
\* whose element loop finds a job type.
job_type_hit(document, is_expanded) ==
    first_stop(LAMBDA k : job_type_scan(find_elements(document, job_type_selectors[k]),
                                        is_expanded, 1) # NoneV,
               Len(job_type_selectors), 1)

with_job_type(document, is_expanded, additional_info) ==
    LET hit == job_type_hit(document, is_expanded)
    IN  IF hit = 0 THEN additional_info
        ELSE Put(additional_info, "job_type",
                 job_type_scan(find_elements(document, job_type_selectors[hit]),
                               is_expanded, 1)[1])

\* The element loop of the seniority search from the i-th node on.  Every
\* node that names a seniority level stores its stripped text, so the last
\* such node before the end, or before a stale node, is the one kept; a
\* stale node ends the loop with an exception.
RECURSIVE seniority_scan(_, _, _, _)
seniority_scan(nodes, is_expanded, additional_info, i) ==
    IF i > Len(nodes) THEN [info |-> additional_info, raises |-> FALSE]
    ELSE IF nodes[i].kind # "element" THEN [info |-> additional_info, raises |-> TRUE]
    ELSE of_value(
             LAMBDA text :
                 IF contains_any(lower(text), seniority_keywords)
                 THEN seniority_scan(nodes, is_expanded,
                                     Put(additional_info, "seniority_level", text), i + 1)
                 ELSE seniority_scan(nodes, is_expanded, additional_info, i + 1),
             strip(text_of(nodes[i], is_expanded)))

\* The selector loop of the seniority search: it ends at the first selector
\* whose element loop ends without exception and with a level stored.
\* It gives the information and the index of the selector it ended at, 0
\* when it ran out of selectors.
RECURSIVE seniority_loop(_, _, _, _)
seniority_loop(document, is_expanded, additional_info, k) ==
    IF k > Len(job_type_selectors) THEN [info |-> additional_info, hit |-> 0]
    ELSE of_value(
             LAMBDA scan :
                 IF ~scan.raises /\ "seniority_level" \in DOMAIN scan.info
                 THEN [info |-> scan.info, hit |-> k]
                 ELSE seniority_loop(document, is_expanded, scan.info, k + 1),
             seniority_scan(find_elements(document, job_type_selectors[k]),
                            is_expanded, additional_info, 1))

\* The three searches of _extract_additional_info, one after the other.
additional_searches(document, is_expanded) ==
    of_value(LAMBDA typed : seniority_loop(document, is_expanded, typed, 1),
             with_job_type(document, is_expanded,
                           with_posted_date(document, is_expanded, <<>>)))

extract_additional_info(document, is_expanded) ==
    additional_searches(document, is_expanded).info

\* The selectors _extract_additional_info asks the document for.
additional_queries(document, is_expanded) ==
    asked(date_selectors, date_hit(document))
    \o asked(job_type_selectors, job_type_hit(document, is_expanded))
    \o asked(job_type_selectors, additional_searches(document, is_expanded).hit)

\* The salary search of run ---------------------------------------------------

salary_marks == <<
    <<"$">>, <<"€">>, <<"£">>, <<"₹">>, <<"s","a","l","a","r","y">>, <<"c","o","m","p","e","n","s","a","t","i","o","n">>, <<"p","a","y">> >>

\* The last criterion that has a salary mark: a scan that does not stop.
salary_of_last(criteria) ==
    LET marked == SelectSeq(criteria, LAMBDA criterion :
                                contains_any(lower(criterion), salary_marks))
    IN  IF marked = <<>> THEN NoneV ELSE marked[Len(marked)]

\* The first criterion that has a salary mark in its lower-cased text.
salary_of(criteria) ==
    LET marked == SelectSeq(criteria, LAMBDA criterion :
                                contains_any(lower(criterion), salary_marks))
    IN  IF marked = <<>> THEN NoneV ELSE marked[1]

-----------------------------------------------------------------------------
(* The URLs and documents run is given.                                    *)

SearchUrl == <<"l","i","n","k","e","d","i","n",".","c","o","m","/","j","o","b","s","/","s","e","a","r","c","h","/","?","c","u","r","r","e","n","t","J","o","b","I","d","=","1">>
ViewUrl == <<"l","i","n","k","e","d","i","n",".","c","o","m","/","j","o","b","s","/","v","i","e","w","/","1">>
FeedUrl == <<"l","i","n","k","e","d","i","n",".","c","o","m","/","f","e","e","d","/">>
ViewFromSearchUrl == <<"l","i","n","k","e","d","i","n",".","c","o","m","/","j","o","b","s","/","v","i","e","w","/","1","?","f","r","o","m","=","/","j","o","b","s","/","s","e","a","r","c","h","/">>
Urls == {SearchUrl, ViewUrl, FeedUrl, ViewFromSearchUrl}

HiddenNode(text) == Node(text, <<>>, text, FALSE)
PaneNode == TextNode(<<>>)
ButtonNode == TextNode(<<"S","h","o","w"," ","m","o","r","e">>)

\* The last selector of a catalog entry.
last(selector_list) == selector_list[Len(selector_list)]

\* What the details-pane selectors of a catalog can match.
PaneParts(catalog) ==
    LET pane == strategies(catalog, "details_pane")
    IN  IF pane = <<>> THEN {<<>>}
        ELSE { <<>>,
               (pane[1] :> <<PaneNode>>),
               (pane[1] :> <<HiddenNode(<<>>)>>) @@ (last(pane) :> <<PaneNode>>),
               (pane[1] :> <<StaleElement>>) }

\* What the show-more selectors can match.
ButtonParts(catalog) ==
    LET button == catalog.description_show_more_button
    IN  { <<>>,
          (button[1] :> <<ButtonNode>>),
          (button[1] :> <<StaleElement>>) @@ (last(button) :> <<ButtonNode>>),
          (button[2] :> <<ButtonNode>>) @@ (last(button) :> <<ButtonNode>>) }

TitleDocParts(catalog) ==
    { <<>>,
      (catalog.title[1] :> <<TextNode(<<"M","L"," ","E","n","g","i","n","e","e","r">>)>>),
      (catalog.title[1] :> <<TextNode(BlankText)>>)
          @@ (catalog.title[2] :> <<StaleElement>>)
          @@ (last(catalog.title) :> <<TextNode(<<" ","D","a","t","a"," ","A","n","a","l","y","s","t","\n">>)>>),
      (catalog.title[1] :> <<TextNode(<<>>)>>)
          @@ (last(catalog.title) :> <<StaleElement>>) }

CompanyDocParts(catalog) ==
    { <<>>,
      (catalog.company_name[1] :> <<TextNode(<<"A","c","m","e"," ","C","o","r","p">>)>>),
      (catalog.company_name[1] :> <<TextNode(BlankText)>>)
          @@ (last(catalog.company_name) :> <<TextNode(<<" ","B","e","t","a"," ">>)>>),
      (catalog.company_name[2] :> <<StaleElement>>) }

LocationDocParts(catalog) ==
    { <<>>,
      (catalog.location[1] :> <<TextNode(<<"P","u","n","e">>)>>),
      (catalog.location[1] :> <<StaleElement>>)
          @@ (last(catalog.location) :> <<TextNode(<<"R","e","m","o","t","e","\n">>)>>),
      (catalog.location[2] :> <<TextNode(<<>>)>>) }

\* A description that a click on 'show more' completes.
DescriptionNode ==
    Node(<<"B","u","i","l","d"," ">>, <<"m","o","d","e","l","s",".">>, <<" ","<","p",">","B","u","i","l","d"," ","m","o","d","e","l","s",".","<","/","p",">","\n">>, TRUE)

DescriptionDocParts(catalog) ==
    { <<>>,
      (catalog.description_container[1] :> <<DescriptionNode>>),
      (catalog.description_container[1] :> <<Node(<<"P","l","a","i","n">>, <<>>, NoneV, TRUE)>>)
          @@ (last(catalog.description_container) :> <<Node(<<>>, <<>>, <<"<","p","/",">">>, TRUE)>>),
      (catalog.description_container[1] :> <<Node(BlankText, <<>>, BlankText, TRUE)>>)
          @@ (catalog.description_container[2] :> <<StaleElement>>) }

CriteriaDocParts(catalog) ==
    { <<>>,
      (catalog.criteria_list[1] :>
          <<TextNode(<<" ","F","u","l","l","-","t","i","m","e"," ">>), TextNode(<<>>), TextNode(<<"$","9","0","K","/","y","r">>), TextNode(<<"P","A","Y"," ","b","a","n","d"," ","3">>)>>),
      (catalog.criteria_list[1] :> <<TextNode(<<"O","n","-","s","i","t","e">>), StaleElement>>)
          @@ (catalog.criteria_list[2] :> <<TextNode(BlankText)>>)
          @@ (last(catalog.criteria_list) :> <<TextNode(<<"C","o","m","p","a","n","y">>), TextNode(<<"₹"," ","2","0","L">>)>>),
      (catalog.criteria_list[1] :> <<TextNode(<<"R","e","m","o","t","e">>)>>) }

AdditionalDocParts ==
    { <<>>,
      (date_selectors[1] :> <<TextNode(<<" ","2"," ","d","a","y","s"," ","a","g","o"," ">>)>>)
          @@ (job_type_selectors[1] :>
                 <<TextNode(<<"H","y","b","r","i","d">>), TextNode(<<"F","u","l","l","-","T","i","m","e">>), TextNode(<<"C","o","n","t","r","a","c","t">>),
                   TextNode(<<"M","i","d","-","S","e","n","i","o","r"," ","l","e","v","e","l">>), TextNode(<<"D","i","r","e","c","t","o","r">>)>>),
      (date_selectors[1] :> <<StaleElement>>)
          @@ (date_selectors[3] :> <<TextNode(<<>>)>>)
          @@ (job_type_selectors[1] :>
                 <<TextNode(<<"A","s","s","o","c","i","a","t","e">>), StaleElement, TextNode(<<"I","n","t","e","r","n","s","h","i","p">>)>>)
          @@ (job_type_selectors[2] :>
                 <<TextNode(<<"P","a","r","t","-","t","i","m","e">>), TextNode(<<"E","n","t","r","y"," ","l","e","v","e","l">>)>>),
      (job_type_selectors[1] :> <<TextNode(<<"E","x","e","c","u","t","i","v","e">>), StaleElement>>)
          @@ (job_type_selectors[2] :> <<TextNode(<<"V","o","l","u","n","t","e","e","r">>)>>) }

\* The document of a catalog with every field but no button and no
\* additional information.
BaseParts(catalog) ==
    <<(IF strategies(catalog, "details_pane") = <<>> THEN <<>>
       ELSE (catalog.details_pane[1] :> <<PaneNode>>)),
      <<>>,
      (catalog.title[1] :> <<TextNode(<<"M","L"," ","E","n","g","i","n","e","e","r">>)>>),
      (catalog.company_name[1] :> <<TextNode(<<"A","c","m","e"," ","C","o","r","p">>)>>),
      (catalog.location[1] :> <<TextNode(<<"P","u","n","e">>)>>),
      (catalog.description_container[1] :> <<DescriptionNode>>),
      (catalog.criteria_list[1] :> <<TextNode(<<"R","e","m","o","t","e">>)>>),
      <<>> >>

PartChoices(catalog) ==
    <<PaneParts(catalog), ButtonParts(catalog), TitleDocParts(catalog),
      CompanyDocParts(catalog), LocationDocParts(catalog),
      DescriptionDocParts(catalog), CriteriaDocParts(catalog), AdditionalDocParts>>

\* The document made of the given parts.
RECURSIVE Merge(_)
Merge(parts) ==
    IF Len(parts) = 0 THEN <<>>
    ELSE IF Len(parts) = 1 THEN parts[1]
    ELSE parts[1] @@ Merge(Tail(parts))

\* The documents of a catalog: the base document with at most MaxVaried of
\* its parts replaced.
MaxVaried == 2

RECURSIVE PartLists(_, _)
PartLists(catalog, n) ==
    IF n = 0 THEN {BaseParts(catalog)}
    ELSE UNION {UNION {{[parts EXCEPT ![i] = part] : part \in PartChoices(catalog)[i]} :
                          i \in 1..Len(parts)} :
                   parts \in PartLists(catalog, n - 1)}

Documents ==
    {Merge(parts) : parts \in PartLists(VIEW_PAGE_SELECTORS, MaxVaried)
                            \cup PartLists(SEARCH_PAGE_SELECTORS, MaxVaried)}

-----------------------------------------------------------------------------
(* LinkedInJobScraper(job_url).run() as a state machine: one step per      *)
(* statement of run.                                                       *)

InitRun ==
    /\ job_url \in Urls
    /\ doc \in Documents
    /\ page_type = "search"
    /\ selectors = <<>>
    /\ expanded = FALSE
    /\ frame = <<>>
    /\ queries = <<>>
    /\ result = NoneV
    /\ selector_key = ""
    /\ resolved = NoneV
    /\ driver_calls = <<>>
    /\ r_pc = "new"
    /\ clock = 0
    /\ AggIdle
    /\ BatchIdle
    /\ SummaryIdle
    /\ AutoIdle
    /\ ReportIdle

\* __init__
Construct ==
    /\ r_pc = "new"
    /\ page_type' = detect_page_type(job_url)
    /\ selectors' = catalog_of(detect_page_type(job_url))
    /\ r_pc' = "navigate"
    /\ UNCHANGED <<job_url, doc, expanded, frame, queries, result, selector_key,
                   resolved, driver_calls,
                   aggVars, batchVars, summaryVars, autoVars, reportVars>>

\* driver.get(job_url) and, on a search page, the wait for the details pane.
Navigate ==
    /\ r_pc = "navigate"
    /\ IF page_type = "search"
       THEN /\ frame' = Put(frame, "pane_loaded", pane_hit(selectors, doc) # 0)
            /\ queries' = queries \o asked(strategies(selectors, "details_pane"),
                                           pane_hit(selectors, doc))
       ELSE UNCHANGED <<frame, queries>>
    /\ r_pc' = "scroll"
    /\ UNCHANGED <<job_url, page_type, selectors, doc, expanded, result,
                   selector_key, resolved, driver_calls,
                   aggVars, batchVars, summaryVars, autoVars, reportVars>>

\* _scroll_and_wait
ScrollAndWait ==
    /\ r_pc = "scroll"
    /\ r_pc' = "expand"
    /\ UNCHANGED <<job_url, page_type, selectors, doc, expanded, frame, queries,
                   result, selector_key, resolved, driver_calls,
                   aggVars, batchVars, summaryVars, autoVars, reportVars>>

\* _expand_description.  A button that went stale after it was located
\* raises either when it is scrolled to or when it is clicked.
ExpandDescription ==
    /\ r_pc = "expand"
    /\ \E stale_at \in DriverScripts :
          driver_calls' = expand_calls(doc,
                                       strategies(selectors, "description_show_more_button"),
                                       stale_at, 1)
    /\ expanded' = (expand_hit(selectors, doc) # 0)
    /\ queries' = queries \o asked(strategies(selectors, "description_show_more_button"),
                                   expand_hit(selectors, doc))
    /\ r_pc' = "title"
    /\ UNCHANGED <<job_url, page_type, selectors, doc, frame, result,
                   selector_key, resolved, aggVars, batchVars, summaryVars, autoVars, reportVars>>

\* Mutant of ExtractTitle: run goes on whatever the title is.
ExtractTitle_unchecked ==
    /\ r_pc = "title"
    /\ frame' = Put(frame, "title",
                    get_element_text_with_fallbacks(selectors, doc, expanded, "title"))
    /\ queries' = queries \o text_queries(selectors, doc, expanded, "title")
    /\ r_pc' = "company_name"
    /\ UNCHANGED <<job_url, page_type, selectors, doc, expanded, result,
                   selector_key, resolved, driver_calls,
                   aggVars, batchVars, summaryVars, autoVars, reportVars>>

\* Mutant of ExtractTitle: without a title the company is still resolved
\* before run returns None.
ExtractTitle_late_gate ==
    /\ r_pc = "title"
    /\ LET title == get_element_text_with_fallbacks(selectors, doc, expanded, "title")
       IN  IF ~truthy(title)
           THEN /\ frame' = Put(Put(frame, "title", title), "company_name",
                                get_element_text_with_fallbacks(selectors, doc, expanded,
                                                                "company_name"))
                /\ queries' = queries \o text_queries(selectors, doc, expanded, "title")
                                      \o text_queries(selectors, doc, expanded, "company_name")
                /\ result' = NoneV
                /\ r_pc' = "returned"
           ELSE /\ frame' = Put(frame, "title", title)
                /\ queries' = queries \o text_queries(selectors, doc, expanded, "title")
                /\ UNCHANGED result
                /\ r_pc' = "company_name"
    /\ UNCHANGED <<job_url, page_type, selectors, doc, expanded,
                   selector_key, resolved, driver_calls,
                   aggVars, batchVars, summaryVars, autoVars, reportVars>>

\* title = ...("title"); without a title run returns None.
ExtractTitle ==
    /\ r_pc = "title"
    /\ LET title == get_element_text_with_fallbacks(selectors, doc, expanded, "title")
       IN  /\ frame' = Put(frame, "title", title)
           /\ IF ~truthy(title)
              THEN result' = NoneV /\ r_pc' = "returned"
              ELSE UNCHANGED result /\ r_pc' = "company_name"
    /\ queries' = queries \o text_queries(selectors, doc, expanded, "title")
    /\ UNCHANGED <<job_url, page_type, selectors, doc, expanded,
                   selector_key, resolved, driver_calls,
                   aggVars, batchVars, summaryVars, autoVars, reportVars>>

\* company_name = ...("company_name")
ExtractCompany ==
    /\ r_pc = "company_name"
    /\ frame' = Put(frame, "company_name",
                    get_element_text_with_fallbacks(selectors, doc, expanded, "company_name"))
    /\ queries' = queries \o text_queries(selectors, doc, expanded, "company_name")
    /\ r_pc' = "location"
    /\ UNCHANGED <<job_url, page_type, selectors, doc, expanded, result,
                   selector_key, resolved, driver_calls,
                   aggVars, batchVars, summaryVars, autoVars, reportVars>>

\* location = ...("location")
ExtractLocation ==
    /\ r_pc = "location"
    /\ frame' = Put(frame, "location",
                    get_element_text_with_fallbacks(selectors, doc, expanded, "location"))
    /\ queries' = queries \o text_queries(selectors, doc, expanded, "location")
    /\ r_pc' = "description_html"
    /\ UNCHANGED <<job_url, page_type, selectors, doc, expanded, result,
                   selector_key, resolved, driver_calls,
                   aggVars, batchVars, summaryVars, autoVars, reportVars>>

\* description_html = ...("description_container")
ExtractDescriptionHtml ==
    /\ r_pc = "description_html"
    /\ frame' = Put(frame, "description_html",
                    get_element_html_with_fallbacks(selectors, doc, "description_container"))
    /\ queries' = queries \o asked(strategies(selectors, "description_container"),
                                   html_hit(selectors, doc, "description_container"))
    /\ r_pc' = "description_text"
    /\ UNCHANGED <<job_url, page_type, selectors, doc, expanded, result,
                   selector_key, resolved, driver_calls,
                   aggVars, batchVars, summaryVars, autoVars, reportVars>>

\* description_text = ...("description_container")
ExtractDescriptionText ==
    /\ r_pc = "description_text"
    /\ frame' = Put(frame, "description_text",
                    get_element_text_with_fallbacks(selectors, doc, expanded,
                                                    "description_container"))
    /\ queries' = queries \o text_queries(selectors, doc, expanded, "description_container")
    /\ r_pc' = "criteria"
    /\ UNCHANGED <<job_url, page_type, selectors, doc, expanded, result,
                   selector_key, resolved, driver_calls,
                   aggVars, batchVars, summaryVars, autoVars, reportVars>>

\* criteria = ...("criteria_list")
ExtractCriteria ==
    /\ r_pc = "criteria"
    /\ frame' = Put(frame, "criteria",
                    get_multiple_elements_text(selectors, doc, expanded, "criteria_list"))
    /\ queries' = queries \o asked(strategies(selectors, "criteria_list"),
                                   multiple_hit(selectors, doc, expanded, "criteria_list"))
    /\ r_pc' = "additional_info"
    /\ UNCHANGED <<job_url, page_type, selectors, doc, expanded, result,
                   selector_key, resolved, driver_calls,
                   aggVars, batchVars, summaryVars, autoVars, reportVars>>

\* additional_info = self._extract_additional_info()
ExtractAdditionalInfo ==
    /\ r_pc = "additional_info"
    /\ frame' = Put(frame, "additional_info", extract_additional_info(doc, expanded))
    /\ queries' = queries \o additional_queries(doc, expanded)
    /\ r_pc' = "salary"
    /\ UNCHANGED <<job_url, page_type, selectors, doc, expanded, result,
                   selector_key, resolved, driver_calls,
                   aggVars, batchVars, summaryVars, autoVars, reportVars>>

\* The salary search, the record and the return.
BuildRecord ==
    /\ r_pc = "salary"
    /\ result' = frame.additional_info @@
                    [ job_title            |-> frame.title,
                      company_name         |-> frame.company_name,
                      location             |-> frame.location,
                      salary_info          |-> salary_of(frame.criteria),
                      job_criteria         |-> frame.criteria,
                      job_description_html |-> frame.description_html,
                      job_description_text |-> frame.description_text,
                      url                  |-> job_url,
                      scraped_at           |-> strftime(clock) ]
    /\ r_pc' = "returned"
    /\ UNCHANGED <<job_url, page_type, selectors, doc, expanded, frame, queries,
                   selector_key, resolved, driver_calls,
                   aggVars, batchVars, summaryVars, autoVars, reportVars>>

NextRun ==
    \/ Construct
    \/ Navigate
    \/ ScrollAndWait
    \/ ExpandDescription
    \/ ExtractTitle
    \/ ExtractCompany
    \/ ExtractLocation
    \/ ExtractDescriptionHtml
    \/ ExtractDescriptionText
    \/ ExtractCriteria
    \/ ExtractAdditionalInfo
    \/ BuildRecord

SpecRun == InitRun /\ [][NextRun]_vars

\* run is straight-line code: a statement that can be executed is executed.
FairRun == InitRun /\ [][NextRun]_vars /\ WF_vars(NextRun)

-----------------------------------------------------------------------------
(* Properties of run.                                                      *)

\* Some strategy of the key matches a first node that can be read and has
\* text that is not blank.
FieldYields(key) ==
    \E k \in 1..Len(strategies(selectors, key)) :
        LET nodes == find_elements(doc, strategies(selectors, key)[k])
        IN  /\ nodes # <<>>
            /\ nodes[1].kind = "element"
            /\ ~IsBlank(text_of(nodes[1], expanded))

RunReturned == r_pc = "returned"
RecordReturned == RunReturned /\ result # NoneV

\* What run has returned: a record with the title if a title strategy
\* yields text, None if none does.
RecordOrNone ==
    RunReturned =>
        IF FieldYields("title")
        THEN /\ result # NoneV
             /\ truthy(result.job_title)
             /\ result.job_title = frame.title
        ELSE result = NoneV

\* C2: run is total over documents.  It always returns, and what it returns
\* is a record with the title if a title strategy yields text, and None if
\* none does, whatever the other fields of the document are.
C2_RunTotal == []RecordOrNone /\ <>RunReturned

\* The title is missing while company, location and description are there.
C2_Witness ==
    /\ RunReturned
    /\ ~FieldYields("title")
    /\ FieldYields("company_name")
    /\ FieldYields("location")
    /\ FieldYields("description_container")
    /\ result = NoneV

\* C3 as stated: in a returned record a company or location that no
\* strategy resolved holds a 'not found' string, never a null value.
C3_Original_SentinelNotNull ==
    RecordReturned =>
        /\ ~FieldYields("company_name") => result.company_name # NoneV
        /\ ~FieldYields("location") => result.location # NoneV

-----------------------------------------------------------------------------
(* Properties of the title-keyword table and of the sums of the tables.    *)

\* The lower-cased title of record i, '' when the record has no title.
LoweredTitle(i) == lower(get(jobs[i], "title", <<>>))

\* The records whose title is scanned: not empty and not the sentinel.
ScannedTitles ==
    {i \in 1..Len(jobs) :
        Len(LoweredTitle(i)) > 0 /\ LoweredTitle(i) # title_not_found_lower}

\* kw occurs in text at some position.
HasSubstring(text, kw) ==
    \E at \in 0..(Len(text) - Len(kw)) :
        \A j \in 1..Len(kw) : text[at + j] = kw[j]

\* The scanned titles, lower-cased, each with the index of its record.
ScannedLowered ==
    {<<i, SubSeq(LoweredTitle(i), 1, Len(LoweredTitle(i)))>> : i \in ScannedTitles}

\* How many of the scanned titles contain the keyword.
TitlesWith(scanned, kw) ==
    Cardinality({title \in scanned : HasSubstring(title[2], kw)})

\* C11: for every keyword of the vocabulary, its title_keywords count is the
\* number of records whose lower-cased title contains it; a title adds one to
\* each bucket it contains, sentinel and empty titles add nothing, and a
\* keyword of count 0 is absent from the table.
C11_KeywordCounts ==
    Analyzed =>
        \A scanned \in {ScannedLowered} :
            LET view == first[1].title_keywords
            IN  /\ Len(view) = Cardinality(ViewKeys(view))
                /\ ViewKeys(view) \subseteq {keywords[k] : k \in 1..Len(keywords)}
                /\ \A k \in 1..Len(keywords) :
                      LET n == TitlesWith(scanned, keywords[k])
                      IN  IF n = 0 THEN keywords[k] \notin ViewKeys(view)
                          ELSE <<keywords[k], n>> \in AsSet(view)

\* C11 witness: an analysed input with a title that fills two buckets, a
\* sentinel title, a bucket filled by two titles and an absent keyword.
C11_Witness ==
    /\ Analyzed
    /\ \E i \in ScannedTitles :
          Cardinality({k \in 1..Len(keywords) :
                          HasSubstring(LoweredTitle(i), keywords[k])}) >= 2
    /\ \E i \in 1..Len(jobs) : get(jobs[i], "title", <<>>) = TitleNotFound
    /\ \E i \in 1..Len(first[1].title_keywords) : first[1].title_keywords[i][2] >= 2
    /\ Len(first[1].title_keywords) < Len(keywords)

\* Record i carries a real value for the field: the key is present and its
\* value is neither the field's sentinel nor the empty posting time.
Carries(i, key) == key \in DOMAIN jobs[i] /\ jobs[i][key] # Excluded(key)

\* A view of fewer than 10 entries is the full table.
SumsToCarriers(view, key) ==
    Len(view) < TopK =>
        SumCounts(view) = Cardinality({i \in 1..Len(jobs) : Carries(i, key)})

\* C12 as stated: the counts of the company, location and posting-time
\* tables each sum to the number of records that carry a present,
\* non-sentinel value for the field, so that a record without the key adds
\* to no bucket.
C12_Original_OnlyRealValues ==
    Analyzed =>
        /\ SumsToCarriers(first[1].companies, "company")
        /\ SumsToCarriers(first[1].locations, "location")
        /\ SumsToCarriers(first[1].posting_times, "posted_time")

-----------------------------------------------------------------------------
(* The company and the location of a record, stated on the card.           *)

\* The j-th selector of the list finds an element whose text can be read.
Readable(card, selector_list, j) ==
    find_element(card, selector_list[j]).kind = "element"

\* The candidate the j-th selector offers: the element's text, stripped and
\* with runs of whitespace collapsed.
CandidateAt(card, selector_list, j) ==
    normalise(find_element(card, selector_list[j]).text)

\* The text contains one of the words, whatever the case of its letters.
HasAnyWord(text, words) ==
    \E w \in 1..Len(words) : HasSubstring(lower(text), words[w])

\* The selectors whose candidate is non-empty, shorter than the bound (when
\* there is one) and free of the words.
Passing(card, selector_list, max_len, words) ==
    {j \in 1..Len(selector_list) :
        /\ Readable(card, selector_list, j)
        /\ LET candidate == CandidateAt(card, selector_list, j)
           IN  /\ Len(candidate) > 0
               /\ max_len > 0 => Len(candidate) < max_len
               /\ ~HasAnyWord(candidate, words)}

\* The first passing candidate in list order, the sentinel without one.
FirstPassing(card, selector_list, max_len, words, sentinel) ==
    LET passing == Passing(card, selector_list, max_len, words)
    IN  IF passing = {} THEN sentinel
        ELSE CandidateAt(card, selector_list, least(passing))

\* A selector before the one that gave the field offers the given text.
RejectedBefore(card, selector_list, text, value) ==
    \E j1, j2 \in 1..Len(selector_list) :
        /\ j1 < j2
        /\ Readable(card, selector_list, j1)
        /\ CandidateAt(card, selector_list, j1) = text
        /\ Readable(card, selector_list, j2)
        /\ CandidateAt(card, selector_list, j2) = value

\* C13: the company of a record is the first candidate, in company-selector
\* order, that is non-empty, shorter than 100 characters and contains none
\* of the job-title words in any case; 'Company not found' when no
\* candidate passes.
C13_CompanyFirstPassing ==
    \A k \in Appended :
        card_jobs[RecordAt(k)].company =
            FirstPassing(job_cards[k], company_selectors, CompanyMaxLen,
                         company_title_words, CompanyNotFound)

\* C13 witness: 'Senior Engineer Team' was rejected and 'Acme Corp', offered
\* by a later selector, is the company of the returned record.
C13_Witness ==
    /\ Returned
    /\ \E k \in Appended :
          /\ listings[1][RecordAt(k)].company = <<"A","c","m","e"," ","C","o","r","p">>
          /\ RejectedBefore(job_cards[k], company_selectors,
                            <<"S","e","n","i","o","r"," ","E","n","g","i","n","e","e","r"," ","T","e","a","m">>, <<"A","c","m","e"," ","C","o","r","p">>)

\* C14: the location of a record is the first candidate, in
\* location-selector order, that is non-empty and contains none of the
\* relative-time tokens in any case; a rejected candidate does not end the
\* search; 'Location not found' when no candidate passes.
C14_LocationFirstPassing ==
    \A k \in Appended :
        card_jobs[RecordAt(k)].location =
            FirstPassing(job_cards[k], location_selectors, 0,
                         location_time_words, LocationNotFound)

\* C14 witness: '3 days ago' was rejected and the search went on to 'Pune';
\* on another card 'Bengaluru, India' was accepted.
C14_Witness ==
    /\ Returned
    /\ \E k \in Appended :
          /\ listings[1][RecordAt(k)].location = <<"P","u","n","e">>
          /\ RejectedBefore(job_cards[k], location_selectors, <<"3"," ","d","a","y","s"," ","a","g","o">>, <<"P","u","n","e">>)
    /\ \E k \in Appended :
          listings[1][RecordAt(k)].location = <<"B","e","n","g","a","l","u","r","u",","," ","I","n","d","i","a">>

-----------------------------------------------------------------------------
(* Properties of the page type.                                            *)

\* The page type the address calls for.
TypeOfAddress ==
    IF HasSubstring(job_url, SearchMark) THEN "search"
    ELSE IF HasSubstring(job_url, ViewMark) THEN "view"
    ELSE "search"

Constructed == r_pc # "new"

\* After construction the page type is the one the address calls for, the
\* catalog is the one of the page type, and the View catalog is in use only
\* for an address with the view mark.
PageTypeOfAddress ==
    Constructed =>
        /\ page_type = TypeOfAddress
        /\ selectors = IF page_type = "search" THEN SEARCH_PAGE_SELECTORS
                       ELSE VIEW_PAGE_SELECTORS
        /\ selectors = VIEW_PAGE_SELECTORS =>
              HasSubstring(job_url, ViewMark) /\ ~HasSubstring(job_url, SearchMark)

\* No statement after construction assigns the address, the page type or
\* the catalog.
FixedAfterConstruction ==
    Constructed =>
        /\ job_url' = job_url
        /\ page_type' = page_type
        /\ selectors' = selectors

\* C15: the page type is a function of the address alone: Search for an
\* address with the search mark, View for one with the view mark and
\* without the search mark, Search for any other; the View catalog is never
\* used for an address without the view mark, and page type and catalog do
\* not change after construction.
C15_PageTypeFixedByAddress ==
    []PageTypeOfAddress /\ [][FixedAfterConstruction]_vars

\* C15 witness: a run on a view address that returned a record resolved
\* with the View catalog.
C15_Witness ==
    /\ RecordReturned
    /\ HasSubstring(job_url, ViewMark)
    /\ page_type = "view"
    /\ selectors = VIEW_PAGE_SELECTORS
    /\ selectors # SEARCH_PAGE_SELECTORS

-----------------------------------------------------------------------------
(* Properties of the multi-element resolver.                               *)

\* The nodes the k-th strategy of the call matches, in document order.
Matched(k) == find_elements(doc, Strategies[k])

\* Every node the strategy matches can be read.
ReadsAll(k) == \A i \in 1..Len(Matched(k)) : Matched(k)[i].kind = "element"

\* The matched nodes whose text has a character that is not whitespace.
WithText(k) ==
    {i \in 1..Len(Matched(k)) : ~IsBlank(text_of(Matched(k)[i], expanded))}

\* The strategy yields texts: its nodes can be read and one has text.
YieldsTexts(k) == Matched(k) # <<>> /\ ReadsAll(k) /\ WithText(k) # {}

YieldingTexts == {k \in 1..Len(Strategies) : YieldsTexts(k)}

ResolvedMultiple == r_pc = "resolved_multiple"

\* C16: the multi-element resolver returns, in document order, exactly the
\* non-empty stripped texts of the elements matched by the first strategy,
\* in list order, that yields a non-empty text; texts of different
\* strategies are never combined, a strategy whose matches are all empty is
\* skipped, and the empty list is returned when no strategy yields one.
C16_TextsOfFirstYieldingStrategy ==
    ResolvedMultiple =>
        IF YieldingTexts = {} THEN resolved = Some(<<>>)
        ELSE LET k == least(YieldingTexts)
                 texts == resolved[1]
             IN  /\ Len(texts) = Cardinality(WithText(k))
                 /\ \A n \in 1..Len(texts) :
                       /\ texts[n] = strip(text_of(Matched(k)[kth(WithText(k), n)], expanded))
                       /\ Len(texts[n]) > 0

\* C16 witness: the first strategy matched nothing but empty elements, the
\* strategy that gave the texts matched a blank element between two full
\* ones, and a later strategy had texts of its own.
C16_Witness ==
    /\ ResolvedMultiple
    /\ Cardinality(YieldingTexts) >= 2
    /\ least(YieldingTexts) > 1
    /\ Matched(1) # <<>> /\ ReadsAll(1) /\ WithText(1) = {}
    /\ Len(Matched(least(YieldingTexts))) = 3
    /\ Len(resolved[1]) = 2

-----------------------------------------------------------------------------
(* Probe failures in the three resolvers.                                  *)

ResolverReturned == r_pc \in {"resolved", "resolved_html", "resolved_multiple"}

\* The probe of the k-th strategy fails: no element is found (the wait of
\* the text and markup resolvers then times out), or an element that was
\* found cannot be read.
ProbeFails(k) ==
    IF ResolvedMultiple THEN Matched(k) = <<>> \/ ~ReadsAll(k)
    ELSE Matched(k) = <<>> \/ Matched(k)[1].kind # "element"

\* The k-th strategy gives the resolver that was called what it looks for.
Gives(k) ==
    CASE r_pc = "resolved" -> Yields(k)
      [] r_pc = "resolved_html" ->
            /\ Matched(k) # <<>>
            /\ Matched(k)[1].kind = "element"
            /\ ~IsBlank(Matched(k)[1].inner_html)
      [] OTHER -> YieldsTexts(k)

\* What a resolver returns when no strategy gives it anything.
NothingResolved == resolved = Some(<<>>)

\* C17: a probe failure on one strategy (no element, a timed-out wait, an
\* error while the element is read) neither leaves the text, markup or
\* multi-element resolver as an error nor ends its loop: the strategy after
\* the failed one is tried, and the call returns the value of the first
\* strategy that gives one, or none.
C17_ProbeFailureGoesOn ==
    ResolverReturned =>
        /\ resolved # NoneV
        /\ \A k \in 1..Len(queries) :
              /\ queries[k] = Strategies[k]
              /\ (ProbeFails(k) /\ k < Len(Strategies)) => Len(queries) > k
        /\ NothingResolved <=> \A k \in 1..Len(Strategies) : ~Gives(k)
        /\ ~NothingResolved => Gives(Len(queries))

\* C17 witness: the markup resolver found no element for its first strategy,
\* could not read the element of the second, and returned the markup of the
\* third.
C17_Witness ==
    /\ r_pc = "resolved_html"
    /\ Len(Strategies) = 3
    /\ Matched(1) = <<>>
    /\ Matched(2) # <<>> /\ Matched(2)[1].kind # "element"
    /\ Len(queries) = 3
    /\ ~NothingResolved

-----------------------------------------------------------------------------
(* Properties of the content expander.                                     *)

\* The show-more strategies of the catalog in use.
ShowMore == strategies(selectors, "description_show_more_button")

\* _expand_description has returned.
Expanded == r_pc \notin {"new", "navigate", "scroll", "expand"}

\* The positions of the calls of one kind, and of those that did not raise.
CallsOf(call) == {i \in 1..Len(driver_calls) : driver_calls[i].call = call}
Succeeded(call) == {i \in CallsOf(call) : ~driver_calls[i].raised}

\* The strategies probed, in the order they were probed.
Probed ==
    LET finds == CallsOf("find_element")
    IN  [n \in 1..Cardinality(finds) |-> driver_calls[kth(finds, n)].selector]

\* C18: one call of the expander probes the show-more strategies in list
\* order, scrolls a located button into view before it clicks it, clicks
\* successfully at most once and probes no strategy after that; when no
\* button is located, or every attempt raises, it returns all the same.
C18_ExpandOnce ==
    Expanded =>
        /\ Probed = SubSeq(ShowMore, 1, Len(Probed))
        /\ \A i \in CallsOf("click") :
              /\ i > 1
              /\ driver_calls[i - 1]
                    = DriverCall("scrollIntoView", driver_calls[i].selector, FALSE)
        /\ \A i \in CallsOf("scrollIntoView") :
              /\ i > 1
              /\ driver_calls[i - 1]
                    = DriverCall("find_element", driver_calls[i].selector, FALSE)
        /\ Cardinality(Succeeded("click")) <= 1
        /\ \A i \in Succeeded("click") : i = Len(driver_calls)
        /\ Succeeded("click") = {} => Probed = ShowMore
        /\ expanded <=> Succeeded("click") # {}

\* C18 witness: the first strategy located nothing, the second located a
\* button that was scrolled to and clicked, and the button a later strategy
\* would have located was not looked for.
C18_Witness ==
    /\ RunReturned
    /\ Len(ShowMore) >= 3
    /\ driver_calls = <<DriverCall("find_element", ShowMore[1], TRUE),
                        DriverCall("find_element", ShowMore[2], FALSE),
                        DriverCall("scrollIntoView", ShowMore[2], FALSE),
                        DriverCall("click", ShowMore[2], FALSE)>>
    /\ find_elements(doc, last(ShowMore)) # <<>>
    /\ expanded

-----------------------------------------------------------------------------
(* summary_js.py: the command line of the summarizer.  File names are      *)
(* opaque, so they are plain strings.                                       *)

\* Most answers the interactive prompt reads before a valid one.
MaxInputs == 2

\* The command lines: --file, --interactive, --display-only, --open-markdown.
CommandLines ==
    [ file : {NoneV, Some("job_0.json")},
      interactive : BOOLEAN,
      display_only : BOOLEAN,
      open_markdown : BOOLEAN ]

\* What find_json_files can find in the directory, latest first.
Listings == { <<>>, <<"job_2.json">>, <<"job_2.json", "job_1.json">> }

\* The answers of the world: whether args.file exists, the job files of the
\* directory, whether the job file can be read and parsed, whether the LLM
\* gave a summary (None when the record has no description, the request
\* failed or the answer was empty), whether the summary file can be opened
\* for writing.
Environments ==
    [ exists : BOOLEAN,
      directory : Listings,
      readable : BOOLEAN,
      summary : {"summary", "None"},
      writable : BOOLEAN ]

\* summarizer.run(json_file_path, display_only=..., open_markdown=...); both
\* keywords default to False.
RunCall(json_file_path, display_only, open_markdown) ==
    [ json_file_path |-> json_file_path,
      display_only |-> display_only,
      open_markdown |-> open_markdown ]

\* What the user can answer at the prompt; "^C" is a keyboard interrupt.
Answers == {"q", "Q", "x", "0", "1", "2", "3", "^C"}

\* int(choice): the number a decimal answer stands for, -1 for an answer on
\* which int raises ValueError.
int(choice) ==
    CASE choice = "0" -> 0
      [] choice = "1" -> 1
      [] choice = "2" -> 2
      [] choice = "3" -> 3
      [] OTHER -> -1

\* choice.lower() == 'q'
is_quit(choice) == choice \in {"q", "Q"}

InitSummary ==
    /\ args \in CommandLines
    /\ s_env \in Environments
    /\ json_files = <<>>
    /\ run_call = NoneV
    /\ summary_files = 0
    /\ shown = FALSE
    /\ opened = FALSE
    /\ inputs = 0
    /\ s_pc = "main"
    /\ clock = 0
    /\ AggIdle
    /\ BatchIdle
    /\ ScraperIdle
    /\ AutoIdle
    /\ ReportIdle

\* main up to its call of summarizer.run or its return: an existing --file
\* is run with the defaults of run; otherwise the directory is searched,
\* and the latest file is run with the defaults of run unless the
\* interactive prompt applies.
Main ==
    /\ s_pc = "main"
    /\ IF truthy(args.file)
       THEN /\ IF s_env.exists
               THEN /\ run_call' = Some(RunCall(args.file[1], FALSE, FALSE))
                    /\ s_pc' = "run"
               ELSE /\ s_pc' = "done"
                    /\ UNCHANGED run_call
            /\ UNCHANGED json_files
       ELSE /\ json_files' = s_env.directory
            /\ IF s_env.directory = <<>>
               THEN s_pc' = "done" /\ UNCHANGED run_call
               ELSE IF args.interactive /\ Len(s_env.directory) > 1
               THEN s_pc' = "select" /\ UNCHANGED run_call
               ELSE /\ run_call' = Some(RunCall(s_env.directory[1], FALSE, FALSE))
                    /\ s_pc' = "run"
    /\ UNCHANGED <<args, s_env, summary_files, shown, opened, inputs,
                   aggVars, batchVars, scraperVars, autoVars, reportVars>>

\* One pass of the prompt loop: 'q' or an interrupt leaves main, a number
\* in range runs the selected file with the flags of the command line, any
\* other answer asks again.
Select ==
    /\ s_pc = "select"
    /\ \E choice \in Answers :
          /\ inputs' = inputs + 1
          /\ IF is_quit(choice) \/ choice = "^C"
             THEN s_pc' = "done" /\ UNCHANGED run_call
             ELSE LET file_index == int(choice) - 1
                  IN  IF int(choice) >= 0 /\ 0 <= file_index /\ file_index < Len(json_files)
                      THEN /\ run_call' = Some(RunCall(json_files[file_index + 1],
                                                       args.display_only,
                                                       args.open_markdown))
                           /\ s_pc' = "run"
                      ELSE /\ inputs < MaxInputs
                           /\ s_pc' = "select"
                           /\ UNCHANGED run_call
    /\ UNCHANGED <<args, json_files, s_env, summary_files, shown, opened,
                   aggVars, batchVars, scraperVars, autoVars, reportVars>>

\* JobSummarizer.run with a file path: read the job file, generate the
\* summary, print it, and save it unless display_only; the saved file is
\* opened when open_markdown.
RunSummarizer ==
    /\ s_pc = "run"
    /\ IF s_env.readable /\ s_env.summary # "None"
       THEN /\ shown' = TRUE
            /\ IF ~run_call[1].display_only /\ s_env.writable
               THEN /\ summary_files' = summary_files + 1
                    /\ opened' = run_call[1].open_markdown
               ELSE UNCHANGED <<summary_files, opened>>
       ELSE UNCHANGED <<shown, summary_files, opened>>
    /\ s_pc' = "done"
    /\ UNCHANGED <<args, json_files, s_env, run_call, inputs,
                   aggVars, batchVars, scraperVars, autoVars, reportVars>>

NextSummary == Main \/ Select \/ RunSummarizer

SpecSummary == InitSummary /\ [][NextSummary]_vars

-----------------------------------------------------------------------------
(* Properties of the summarizer command line.                              *)

\* C19 as stated: when the command line has --display-only no summary file
\* is written, whether the file comes from --file, from the interactive
\* prompt or is the latest one.
C19_Original_DisplayOnlyWritesNothing ==
    (s_pc # "idle" /\ args.display_only) => summary_files = 0

(***************************************************************************)
(* The seniority level of a record.                                        *)

\* The entries the seniority search can read, in scan order: the i-th node
\* the k-th selector matches.
SeniorityEntries ==
    UNION {{<<k, i>> : i \in {j \in DOMAIN find_elements(doc, job_type_selectors[k]) :
                                 find_elements(doc, job_type_selectors[k])[j].kind = "element"}} :
           k \in 1..Len(job_type_selectors)}

EntryText(e) == text_of(find_elements(doc, job_type_selectors[e[1]])[e[2]], expanded)

\* The lower-cased text of the entry contains a seniority keyword.
NamesLevel(e) == HasAnyWord(EntryText(e), seniority_keywords)

ScannedBefore(f, e) == f[1] < e[1] \/ (f[1] = e[1] /\ f[2] < e[2])

\* The first entry, in scan order, that names a level.
FirstNaming(e) ==
    /\ e \in SeniorityEntries
    /\ NamesLevel(e)
    /\ \A f \in SeniorityEntries : ScannedBefore(f, e) => ~NamesLevel(f)

\* C20 as stated: the seniority level of the returned record is the text, in
\* its original case, of the first entry in scan order whose lower-cased
\* text contains one of the keywords; no later entry replaces it.
C20_Original_FirstEntryKept ==
    RecordReturned =>
        \A e \in SeniorityEntries :
            FirstNaming(e) =>
                /\ "seniority_level" \in DOMAIN result
                /\ result.seniority_level = strip(EntryText(e))

(***************************************************************************)
(* The salary information of a record.                                     *)

\* The entries of the record's criteria that carry a currency symbol or a
\* salary token, whatever the case of their letters.
SalaryEntries ==
    {i \in DOMAIN result.job_criteria : HasAnyWord(result.job_criteria[i], salary_marks)}

\* C21: salary_info of a returned record is the first entry of its criteria,
\* in order, that contains a currency symbol or one of the tokens salary,
\* compensation, pay in any case; it is None exactly when no entry does, and
\* no later such entry takes the place of an earlier one.
C21_SalaryFirstMarked ==
    RecordReturned =>
        /\ (result.salary_info = NoneV) <=> (SalaryEntries = {})
        /\ \A i \in SalaryEntries :
              (\A j \in SalaryEntries : i <= j) =>
                  result.salary_info = result.job_criteria[i]

\* C21 witness: a record with two salary entries after an entry that is
\* none, holding the first of the two.
C21_Witness ==
    /\ RecordReturned
    /\ Cardinality(SalaryEntries) >= 2
    /\ 1 \notin SalaryEntries
    /\ \E i \in SalaryEntries :
          /\ \A j \in SalaryEntries : i <= j
          /\ result.salary_info = result.job_criteria[i]
          /\ \E j \in SalaryEntries : result.job_criteria[j] # result.job_criteria[i]

(***************************************************************************)
(* The length bound of a company candidate.                                *)

\* The company selectors whose candidate passes every test but the one on
\* its length: it can be read, is non-empty and has no job-title word.
Screened(card) ==
    {j \in 1..Len(company_selectors) :
        /\ Readable(card, company_selectors, j)
        /\ Len(CandidateAt(card, company_selectors, j)) > 0
        /\ ~HasAnyWord(CandidateAt(card, company_selectors, j), company_title_words)}

\* The screened candidates of at most n characters.
ScreenedUpTo(card, n) ==
    {j \in Screened(card) : Len(CandidateAt(card, company_selectors, j)) <= n}

\* The company of a record is the first screened candidate of at most n
\* characters, and the sentinel when there is none.
LengthBoundIs(n) ==
    \A k \in Appended :
        LET card == job_cards[k]
            company == card_jobs[RecordAt(k)].company
        IN  \A within \in {ScreenedUpTo(card, n)} :
                IF within = {} THEN company = CompanyNotFound
                ELSE company = CandidateAt(card, company_selectors, least(within))

\* C22 as stated: a candidate is rejected for its length only when it has
\* more than 100 characters, so one of exactly 100 is accepted.
C22_Original_HundredAccepted == LengthBoundIs(CompanyMaxLen)

\* C22: a candidate is rejected for its length when it has 100 characters or
\* more: a non-empty, keyword-free candidate of 99 characters is accepted
\* and one of exactly 100 is rejected.
C22_HundredRejected == LengthBoundIs(CompanyMaxLen - 1)

\* C22 witness: a card offers candidates of 101, 100 and 99 characters in
\* this order, and the record holds the one of 99.
C22_Witness ==
    /\ Returned
    /\ \E k \in Appended :
          \E j1, j2, j3 \in Screened(job_cards[k]) :
              /\ j1 < j2 /\ j2 < j3
              /\ Len(CandidateAt(job_cards[k], company_selectors, j1)) = CompanyMaxLen + 1
              /\ Len(CandidateAt(job_cards[k], company_selectors, j2)) = CompanyMaxLen
              /\ Len(CandidateAt(job_cards[k], company_selectors, j3)) = CompanyMaxLen - 1
              /\ listings[1][RecordAt(k)].company =
                     CandidateAt(job_cards[k], company_selectors, j3)

(***************************************************************************)
(* The order of the steps of run.                                          *)

\* The positions of run in the order the claim gives: construction with the
\* page-type detection, loading, expansion, the title, the other fields, the
\* classifiers, the record.
Steps ==
    <<"new", "navigate", "scroll", "expand", "title", "company_name", "location",
      "description_html", "description_text", "criteria", "additional_info",
      "salary", "returned">>

StepOf(pc) == CHOOSE i \in 1..Len(Steps) : Steps[i] = pc

\* The field and classifier results run holds so far.
ResolvedSoFar == DOMAIN frame \ {"pane_loaded"}

\* The results the steps before the i-th step of the order store.
StoredBefore(i) == {Steps[j] : j \in 5..(i - 1)} \ {"salary"}

AtOrBeforeExpansion == StepOf(r_pc) <= StepOf("expand")

\* What holds at every position: before the expander has run nothing is
\* resolved, clicked or asked of the document but the details pane; later
\* the results are those of the steps passed; a run that returned None
\* holds the missing title alone.
StepsSoFar ==
    /\ r_pc \in {Steps[i] : i \in 1..Len(Steps)}
    /\ AtOrBeforeExpansion =>
          /\ ResolvedSoFar = {}
          /\ ~expanded /\ driver_calls = <<>>
          /\ \A i \in 1..Len(queries) :
                \E k \in 1..Len(strategies(selectors, "details_pane")) :
                    queries[i] = strategies(selectors, "details_pane")[k]
    /\ r_pc # "returned" => ResolvedSoFar = StoredBefore(StepOf(r_pc))
    /\ RecordReturned =>
          /\ ResolvedSoFar = StoredBefore(StepOf("returned"))
          /\ truthy(frame.title)
    /\ (RunReturned /\ result = NoneV) =>
          /\ ResolvedSoFar = {"title"}
          /\ ~truthy(frame.title)

\* What every step does: it leaves a position that is not the last one for
\* the next in the order, or the title position for the end when the title
\* is none; only construction sets the page type and the catalog, only the
\* expansion step expands.
NextInOrder ==
    /\ r_pc # "returned"
    /\ IF r_pc = "title" /\ ~truthy(frame'.title)
       THEN r_pc' = "returned" /\ result' = NoneV
       ELSE StepOf(r_pc') = StepOf(r_pc) + 1
    /\ r_pc # "new" => page_type' = page_type /\ selectors' = selectors
    /\ r_pc # "expand" => expanded' = expanded /\ driver_calls' = driver_calls
    /\ r_pc' # "returned" => result' = NoneV

\* C23: the steps of run occur in the order page-type detection, expansion
\* (once), title, the other fields, the classifiers, the record; nothing is
\* resolved before the expander has run, and without a title run ends with
\* None, no other field resolved, no classifier run and no record made.
C23_StepsInOrder == []StepsSoFar /\ [][NextInOrder]_vars

\* C23 witness: after an expansion that clicked, the title was none and run
\* returned None with the title as the only thing it resolved.
C23_Witness ==
    /\ RunReturned
    /\ result = NoneV
    /\ expanded
    /\ driver_calls # <<>>
    /\ ResolvedSoFar = {"title"}
    /\ \E i \in 1..Len(queries) :
          \E k \in 1..Len(strategies(selectors, "title")) :
              queries[i] = strategies(selectors, "title")[k]

(***************************************************************************)
(* The document queries of the classifiers.                                *)

\* The selectors of the catalog run works with: what the pane wait, the
\* expander and the field resolvers can ask the document for.
CatalogSelectors ==
    UNION {{selectors[key][k] : k \in 1..Len(selectors[key])} : key \in DOMAIN selectors}

\* The classifiers (posting date, job type, seniority, salary) have run.
Classified == StepOf(r_pc) > StepOf("additional_info")

\* C24 as stated: the classifiers ask the document for nothing, so once they
\* have run every query made is still one of the pane wait, the expander or
\* a field resolver, which ask for selectors of the catalog only.
C24_Original_ClassifiersAskNothing ==
    Classified => \A i \in 1..Len(queries) : queries[i] \in CatalogSelectors

(***************************************************************************)
(* A key without strategies in the catalog.                                *)

\* The key the resolver was called with has no strategy in the catalog of
\* the extractor: the key is missing, or its list is empty.
WithoutStrategies == Strategies = <<>>

WaitedOut(k) ==
    \/ page[job_card_selectors[k]].kind = "TimeoutException"
    \/ /\ page[job_card_selectors[k]].kind = "elements"
       /\ page[job_card_selectors[k]].cards = <<>>

\* The k-th card selector finds cards: every selector before it was waited
\* for in vain, and its own wait gives at least one card.
FindsCards(k) ==
    /\ \A j \in 1..(k - 1) : WaitedOut(j)
    /\ page[job_card_selectors[k]].kind = "elements"
    /\ page[job_card_selectors[k]].cards # <<>>

Finding == {k \in 1..Len(job_card_selectors) : FindsCards(k)}

\* The records of the cards at the given positions that did not raise, in
\* the order of the cards.
RecordsOf(cards, positions) ==
    /\ Len(listings[1]) = Cardinality(positions \ raised)
    /\ \A k \in positions \ raised :
          listings[1][k - Cardinality({j \in raised : j < k})] = extract_card(cards[k], clock)

BatchReturned == b_pc = "returned"

\* C26: extract_job_listings returns at most max_jobs records, those of the
\* first max_jobs cards of the first card selector that finds any card, in
\* card order; a card whose processing raised is left out and the cards
\* after it are still processed; without a selector that finds a card the
\* result is the empty list.
C26_FirstCardsOfFirstSelector ==
    BatchReturned =>
        IF Finding = {} THEN listings = Some(<<>>)
        ELSE \A k \in Finding :
                \A cards \in {page[job_card_selectors[k]].cards} :
                    /\ Len(listings[1]) <= max_jobs
                    /\ raised \subseteq 1..Len(cards)
                    /\ RecordsOf(cards, {i \in 1..Len(cards) : i <= max_jobs})

\* C26 witness: the third selector is the first to find cards, it finds more
\* than max_jobs of them, the first card raised and the second has its
\* record in the returned list.
C26_Witness ==
    /\ BatchReturned
    /\ \E k \in Finding :
          /\ k > 1
          /\ Len(page[job_card_selectors[k]].cards) > max_jobs
    /\ raised = {1}
    /\ Len(listings[1]) = max_jobs - 1
    /\ listings[1][1] = extract_card(job_cards[2], clock)

-----------------------------------------------------------------------------
(* automation.py: automate_linkedin_job_search as a state machine, one     *)
(* step per numbered step of the function and one per 'Show results'       *)
(* method.                                                                 *)

MaxLevels == 2

\* The experience levels main asks for.
LevelNames == {"Entry level", "Associate"}

RECURSIVE LevelLists(_)
LevelLists(n) ==
    IF n = 0 THEN {<<>>}
    ELSE LevelLists(n - 1)
         \cup {Append(levels, level) : levels \in LevelLists(n - 1), level \in LevelNames}

\* The exceptions the inner handlers of the function name, and one of the
\* others a driver call can raise.
CaughtInside == {"TimeoutException", "NoSuchElementException"}
OtherError == "WebDriverException"

\* What a wait, a lookup and a command on an element can end with.
WaitOutcomes == {"ok", "TimeoutException", OtherError}
LookupOutcomes == {"ok", "NoSuchElementException", OtherError}
CommandOutcomes == {"ok", "TimeoutException", OtherError}

\* A button of the page: its text, whether it has the classes of a primary
\* button, and whether it went stale, so that reading it raises.
Button(text, primary) == [text |-> text, primary |-> primary, stale |-> FALSE]
StaleButton(primary) == [text |-> <<>>, primary |-> primary, stale |-> TRUE]

ButtonLists == {
    <<>>,
    <<Button(<<"A","p","p","l","y">>, TRUE)>>,
    <<Button(<<"C","a","n","c","e","l">>, FALSE), Button(<<" ","S","h","o","w"," ","r","e","s","u","l","t","s","\n">>, TRUE)>>,
    <<Button(<<"S","h","o","w"," ","2","5"," ","r","e","s","u","l","t","s">>, TRUE)>>,
    <<Button(<<"D","o","n","e">>, TRUE), Button(<<"S","H","O","W"," ","R","E","S","U","L","T","S"," ">>, FALSE), Button(<<"S","h","o","w"," ","r","e","s","u","l","t","s">>, FALSE)>>,
    <<StaleButton(TRUE)>>,
    <<Button(<<"R","e","s","e","t">>, FALSE), StaleButton(FALSE), Button(<<"S","h","o","w"," ","r","e","s","u","l","t","s">>, FALSE)>> }

\* One thing done on the page.
Event(what, which) == <<what, which>>

\* The first of the outcomes that is not "ok", "ok" when all are.
RECURSIVE first_raised(_)
first_raised(outcomes) ==
    IF outcomes = <<>> THEN "ok"
    ELSE IF outcomes[1] # "ok" THEN outcomes[1]
    ELSE first_raised(Tail(outcomes))

\* The call ends in the handler with the value False.
ReturnFalse(from) ==
    /\ handler' = from
    /\ success' = Some(FALSE)
    /\ m_pc' = "done"

\* The outer handler: except Exception, return False.
OuterHandler == ReturnFalse("outer")

\* The handler of the experience filter: Escape is sent to the page and
\* False returned; an error of the key press reaches the outer handler.
FilterHandler ==
    \E pressed \in LookupOutcomes :
        IF pressed = "ok"
        THEN events' = Append(events, Event("escape", 0)) /\ ReturnFalse("filter")
        ELSE UNCHANGED events /\ OuterHandler

InitAuto ==
    /\ experience_levels \in LevelLists(MaxLevels)
    /\ buttons \in ButtonLists
    /\ level_i = 0
    /\ method = 0
    /\ show_results_clicked = FALSE
    /\ events = <<>>
    /\ handler = ""
    /\ success = NoneV
    /\ m_pc = "connect"
    /\ clock = 0
    /\ AggIdle
    /\ BatchIdle
    /\ ScraperIdle
    /\ SummaryIdle
    /\ ReportIdle

\* webdriver.Chrome(options) and driver.get
Connect ==
    /\ m_pc = "connect"
    /\ \E connected \in {"ok", OtherError} :
          IF connected = "ok"
          THEN m_pc' = "search" /\ UNCHANGED <<handler, success>>
          ELSE OuterHandler
    /\ UNCHANGED <<experience_levels, buttons, level_i, method, show_results_clicked,
                   events, aggVars, batchVars, scraperVars, summaryVars, reportVars>>

\* Step 2: the search box is waited for, cleared, filled and submitted.
Search ==
    /\ m_pc = "search"
    /\ \E found \in WaitOutcomes, typed \in CommandOutcomes :
          \E raised_here \in {first_raised(<<found, typed>>)} :
              IF raised_here = "ok"
              THEN /\ events' = Append(events, Event("submit", 0))
                   /\ m_pc' = "jobs_tab"
                   /\ UNCHANGED <<handler, success>>
              ELSE /\ UNCHANGED events
                   /\ IF raised_here \in CaughtInside THEN ReturnFalse("search")
                      ELSE OuterHandler
    /\ UNCHANGED <<experience_levels, buttons, level_i, method, show_results_clicked,
                   aggVars, batchVars, scraperVars, summaryVars, reportVars>>

\* Step 3: the Jobs tab is waited for and clicked.
JobsTab ==
    /\ m_pc = "jobs_tab"
    /\ \E found \in WaitOutcomes, clicked \in CommandOutcomes :
          \E raised_here \in {first_raised(<<found, clicked>>)} :
              IF raised_here = "ok"
              THEN /\ events' = Append(events, Event("jobs_tab", 0))
                   /\ m_pc' = (IF experience_levels # <<>> THEN "dropdown" ELSE "finish")
                   /\ UNCHANGED <<handler, success>>
              ELSE /\ UNCHANGED events
                   /\ IF raised_here \in CaughtInside THEN ReturnFalse("jobs_tab")
                      ELSE OuterHandler
    /\ UNCHANGED <<experience_levels, buttons, level_i, method, show_results_clicked,
                   aggVars, batchVars, scraperVars, summaryVars, reportVars>>

\* Step 4.1: the 'Experience level' button is waited for and clicked.
OpenDropdown ==
    /\ m_pc = "dropdown"
    /\ \E found \in WaitOutcomes, clicked \in CommandOutcomes :
          \E raised_here \in {first_raised(<<found, clicked>>)} :
              IF raised_here = "ok"
              THEN /\ events' = Append(events, Event("dropdown", 0))
                   /\ m_pc' = "levels"
                   /\ UNCHANGED <<handler, success>>
              ELSE IF raised_here \in CaughtInside THEN FilterHandler
              ELSE UNCHANGED events /\ OuterHandler
    /\ UNCHANGED <<experience_levels, buttons, level_i, method, show_results_clicked,
                   aggVars, batchVars, scraperVars, summaryVars, reportVars>>

\* Step 4.2, one pass of the loop: the label of the level is waited for and
\* clicked by script; a level that is not found is skipped.
TickLevel ==
    /\ m_pc = "levels"
    /\ level_i < Len(experience_levels)
    /\ \E found \in WaitOutcomes, clicked \in CommandOutcomes :
          \E raised_here \in {first_raised(<<found, clicked>>)} :
              IF raised_here = OtherError
              THEN UNCHANGED <<events, level_i>> /\ OuterHandler
              ELSE /\ events' = (IF raised_here = "ok"
                                 THEN Append(events, Event("tick", level_i + 1))
                                 ELSE events)
                   /\ level_i' = level_i + 1
                   /\ UNCHANGED <<handler, success, m_pc>>
    /\ UNCHANGED <<experience_levels, buttons, method, show_results_clicked,
                   aggVars, batchVars, scraperVars, summaryVars, reportVars>>

\* The loop is over: show_results_clicked = False, method 1 is next.
LevelsDone ==
    /\ m_pc = "levels"
    /\ level_i = Len(experience_levels)
    /\ method' = 1
    /\ m_pc' = "methods"
    /\ UNCHANGED <<experience_levels, buttons, level_i, show_results_clicked, events,
                   handler, success, aggVars, batchVars, scraperVars, summaryVars, reportVars>>

\* WaitAndClick without the assignment show_results_clicked = True of
\* lines 92, 102, 112 and 122: a click leaves the flag as it was.
WaitAndClick_flag_unset ==
    /\ m_pc = "methods"
    /\ method \in 1..4
    /\ ~show_results_clicked
    /\ \E found \in WaitOutcomes, clicked \in CommandOutcomes :
          \E raised_here \in {first_raised(<<found, clicked>>)} :
              IF raised_here = OtherError
              THEN /\ events' = Append(events, Event("attempt", method))
                   /\ UNCHANGED <<method, show_results_clicked>>
                   /\ OuterHandler
              ELSE /\ events' = (IF raised_here = "ok"
                                 THEN events \o <<Event("attempt", method), Event("click", method)>>
                                 ELSE Append(events, Event("attempt", method)))
                   /\ show_results_clicked' = FALSE
                   /\ method' = method + 1
                   /\ UNCHANGED <<handler, success, m_pc>>
    /\ UNCHANGED <<experience_levels, buttons, level_i,
                   aggVars, batchVars, scraperVars, summaryVars, reportVars>>

\* Methods 1 to 4: the button is waited for by the method's locator and
\* clicked.  A timeout, or a missing element, leaves the flag as it is.
WaitAndClick ==
    /\ m_pc = "methods"
    /\ method \in 1..4
    /\ ~show_results_clicked
    /\ \E found \in WaitOutcomes, clicked \in CommandOutcomes :
          \E raised_here \in {first_raised(<<found, clicked>>)} :
              IF raised_here = OtherError
              THEN /\ events' = Append(events, Event("attempt", method))
                   /\ UNCHANGED <<method, show_results_clicked>>
                   /\ OuterHandler
              ELSE /\ events' = (IF raised_here = "ok"
                                 THEN events \o <<Event("attempt", method), Event("click", method)>>
                                 ELSE Append(events, Event("attempt", method)))
                   /\ show_results_clicked' = (raised_here = "ok")
                   /\ method' = method + 1
                   /\ UNCHANGED <<handler, success, m_pc>>
    /\ UNCHANGED <<experience_levels, buttons, level_i,
                   aggVars, batchVars, scraperVars, summaryVars, reportVars>>

\* The buttons with the classes of a primary button, in document order.
primary_buttons(button_list) == SelectSeq(button_list, LAMBDA button : button.primary)

\* 'show' in button_text and 'result' in button_text
names_show_results(button_text) ==
    contains(button_text, <<"s","h","o","w">>) /\ contains(button_text, <<"r","e","s","u","l","t">>)

\* Method 5: the first primary button is looked up and clicked if its text
\* has 'show' and 'result'.
PrimaryButton ==
    /\ m_pc = "methods"
    /\ method = 5
    /\ ~show_results_clicked
    /\ \E found \in (IF primary_buttons(buttons) = <<>> THEN {"NoSuchElementException"}
                     ELSE {"ok"}) \cup {OtherError},
          clicked \in CommandOutcomes :
          IF found = "NoSuchElementException"
          THEN /\ show_results_clicked' = FALSE
               /\ method' = 6
               /\ UNCHANGED <<handler, success, m_pc>>
          ELSE IF found = OtherError \/ primary_buttons(buttons)[1].stale
          THEN UNCHANGED <<method, show_results_clicked>> /\ OuterHandler
          ELSE IF ~names_show_results(lower(strip(primary_buttons(buttons)[1].text)))
          THEN /\ show_results_clicked' = FALSE
               /\ method' = 6
               /\ UNCHANGED <<handler, success, m_pc>>
          ELSE IF clicked = OtherError
          THEN UNCHANGED <<method, show_results_clicked>> /\ OuterHandler
          ELSE /\ show_results_clicked' = (clicked = "ok")
               /\ method' = 6
               /\ UNCHANGED <<handler, success, m_pc>>
    /\ events' = Append(events, Event("attempt", 5))
                    \o (IF show_results_clicked' THEN <<Event("click", 5)>> ELSE <<>>)
    /\ UNCHANGED <<experience_levels, buttons, level_i,
                   aggVars, batchVars, scraperVars, summaryVars, reportVars>>

\* The loop of method 6 from the i-th button on: whether it reaches a
\* button whose text is 'show results' before one that cannot be read.
RECURSIVE reaches_show_results(_, _)
reaches_show_results(button_list, i) ==
    IF i > Len(button_list) THEN FALSE
    ELSE IF button_list[i].stale THEN FALSE
    ELSE IF lower(strip(button_list[i].text)) = <<"s","h","o","w"," ","r","e","s","u","l","t","s">> THEN TRUE
    ELSE reaches_show_results(button_list, i + 1)

\* Method 6: every button is looked at and the first that reads 'show
\* results' is clicked by script; any exception ends the method.
AnyButton ==
    /\ m_pc = "methods"
    /\ method = 6
    /\ ~show_results_clicked
    /\ \E found \in {"ok", OtherError}, clicked \in CommandOutcomes :
          show_results_clicked' = /\ found = "ok"
                                  /\ reaches_show_results(buttons, 1)
                                  /\ clicked = "ok"
    /\ events' = Append(events, Event("attempt", 6))
                    \o (IF show_results_clicked' THEN <<Event("click", 6)>> ELSE <<>>)
    /\ method' = 7
    /\ UNCHANGED <<experience_levels, buttons, level_i, handler, success, m_pc,
                   aggVars, batchVars, scraperVars, summaryVars, reportVars>>

\* MethodsDone without the test of line 154: the run goes on to its end
\* whether or not a method clicked.
MethodsDone_unchecked ==
    /\ m_pc = "methods"
    /\ show_results_clicked \/ method = 7
    /\ m_pc' = "finish"
    /\ UNCHANGED <<experience_levels, buttons, level_i, method, show_results_clicked,
                   events, handler, success,
                   aggVars, batchVars, scraperVars, summaryVars, reportVars>>

\* After the methods: 'if not show_results_clicked' of every later method
\* and of the give-up block.
MethodsDone ==
    /\ m_pc = "methods"
    /\ show_results_clicked \/ method = 7
    /\ m_pc' = (IF show_results_clicked THEN "finish" ELSE "give_up")
    /\ UNCHANGED <<experience_levels, buttons, level_i, method, show_results_clicked,
                   events, handler, success,
                   aggVars, batchVars, scraperVars, summaryVars, reportVars>>

\* No method clicked: the buttons are printed, Escape is sent and False is
\* returned.  A missing body, or a timeout of the key press, is caught by
\* the handler of the filter, which presses Escape itself.
GiveUp ==
    /\ m_pc = "give_up"
    /\ \E pressed \in LookupOutcomes :
          IF pressed = "ok"
          THEN events' = Append(events, Event("escape", 0)) /\ ReturnFalse("")
          ELSE IF pressed \in CaughtInside THEN FilterHandler
          ELSE UNCHANGED events /\ OuterHandler
    /\ UNCHANGED <<experience_levels, buttons, level_i, method, show_results_clicked,
                   aggVars, batchVars, scraperVars, summaryVars, reportVars>>

\* return True
Finish ==
    /\ m_pc = "finish"
    /\ success' = Some(TRUE)
    /\ m_pc' = "done"
    /\ UNCHANGED <<experience_levels, buttons, level_i, method, show_results_clicked,
                   events, handler, aggVars, batchVars, scraperVars, summaryVars, reportVars>>

NextAuto ==
    \/ Connect
    \/ Search
    \/ JobsTab
    \/ OpenDropdown
    \/ TickLevel
    \/ LevelsDone
    \/ WaitAndClick
    \/ PrimaryButton
    \/ AnyButton
    \/ MethodsDone
    \/ GiveUp
    \/ Finish

SpecAuto == InitAuto /\ [][NextAuto]_vars

\* ---------------------------------------------------------------------
\* The value returned by automate_linkedin_job_search
\* ---------------------------------------------------------------------

\* Something of this kind was done on the page during the run.
Did(what) == \E i \in 1..Len(events) : events[i][1] = what

\* The call has returned.
AutomationReturned == m_pc = "done"

\* The levels of the request whose checkbox was not ticked.
SkippedLevels == {i \in 1..Len(experience_levels) : ~\E k \in 1..Len(events) : events[k] = Event("tick", i)}

\* C27: the call returns True exactly when the query was submitted, the
\* Jobs tab was clicked and, for a non-empty list of levels, the dropdown
\* was opened and a click on 'Show results' was performed; every other run
\* returns False, and no run ends without a returned value.
C27_TrueExactlyWhenAllDone ==
    AutomationReturned =>
        /\ success \in {Some(TRUE), Some(FALSE)}
        /\ (success = Some(TRUE)) <=>
               /\ Did("submit")
               /\ Did("jobs_tab")
               /\ experience_levels # <<>> => (Did("dropdown") /\ Did("click"))

\* True is returned by a run with two levels asked, one of them skipped
\* because its checkbox was not found, and a click on 'Show results'.
C27_Witness ==
    /\ AutomationReturned
    /\ success = Some(TRUE)
    /\ Len(experience_levels) = 2
    /\ Cardinality(SkippedLevels) = 1
    /\ Did("click")

\* ---------------------------------------------------------------------
\* The six methods of the 'Show results' click
\* ---------------------------------------------------------------------

\* The positions of the events of one kind, and the methods they name.
EventsOf(what) == {i \in 1..Len(events) : events[i][1] = what}
AttemptsSoFar == SelectSeq(events, LAMBDA e : e[1] = "attempt")

\* C28: 'Show results' is clicked at most once in a run; the methods are
\* attempted in the order 1 to 6, the k-th attempt being method k; a click
\* is the click of the method attempted last, and nothing is attempted or
\* clicked after it.
C28_OneClickInMethodOrder ==
    /\ Cardinality(EventsOf("click")) <= 1
    /\ \A k \in 1..Len(AttemptsSoFar) : AttemptsSoFar[k][2] = k
    /\ Len(AttemptsSoFar) <= 6
    /\ \A c \in EventsOf("click") :
          /\ c > 1
          /\ events[c - 1] = Event("attempt", events[c][2])
          /\ \A later \in EventsOf("attempt") \cup EventsOf("click") : later <= c

\* Methods 1 to 4 were attempted without a click, method 5 clicked the
\* primary button, and the call returned with method 6 never attempted.
C28_Witness ==
    /\ AutomationReturned
    /\ Len(AttemptsSoFar) = 5
    /\ \E c \in EventsOf("click") : events[c] = Event("click", 5)

\* ---------------------------------------------------------------------
\* Closing the dropdown on failure
\* ---------------------------------------------------------------------

\* C29 (as stated): whenever False is returned after the experience-level
\* dropdown was opened, an Escape key press was sent before the return,
\* whatever the kind of failure.
C29_Original_EscapeBeforeFalse ==
    (AutomationReturned /\ success = Some(FALSE) /\ Did("dropdown")) => Did("escape")

\* =====================================================================
\* linkedin_job_reporter_ui.py: main, generate_report, batch_search_jobs
\* and the statistics they read
\* =====================================================================

MaxSearches == 3

\* What a search returns: nothing, one record, or several.
SearchResults == {<<>>, <<JobML>>, <<JobSenior, JobNotFound, JobSaved>>}

Callers == {"main", "generate_report", "batch_search_jobs"}

\* The formats main generates (line 917), those of the batch (line 1037),
\* and those a caller of generate_report may pass.
MainFormats == <<"html", "txt", "json">>
BatchFormats == <<"html", "txt">>
FormatArguments == {"html", "txt", "json", "pdf"}

NoJobsMessage == "No jobs found to generate report."

\* One access to the statistics: analysis.get(key), analysis[key] under a
\* test of analysis.get(key), or analysis[key].
Access(how, key) == <<how, key>>

\* The accesses of the three renderers and of main's preview, in the order
\* of the source.
HtmlAccesses ==
    << Access("get", "companies"), Access("guarded", "companies"),
       Access("get", "locations"), Access("guarded", "locations"),
       Access("get", "title_keywords"), Access("guarded", "title_keywords"),
       Access("item", "extraction_date"), Access("item", "total_jobs"),
       Access("item", "unique_companies"), Access("item", "unique_locations"),
       Access("item", "companies"), Access("item", "locations"),
       Access("item", "title_keywords"), Access("item", "posting_times") >>
TextAccesses ==
    << Access("item", "extraction_date"), Access("item", "total_jobs"),
       Access("item", "unique_companies"), Access("item", "unique_locations"),
       Access("item", "companies"), Access("item", "locations"),
       Access("item", "posting_times"), Access("item", "title_keywords") >>
JsonAccesses ==
    << Access("item", "extraction_date"), Access("item", "total_jobs"),
       Access("item", "unique_companies"), Access("item", "unique_locations"),
       Access("item", "companies"), Access("item", "locations"),
       Access("item", "posting_times"), Access("item", "title_keywords") >>
PreviewAccesses ==
    << Access("item", "unique_companies"), Access("item", "unique_locations"),
       Access("item", "companies"), Access("item", "locations") >>

\* The renderer generate_report picks for a format (lines 486-491).
renderer_accesses(output_format) ==
    IF output_format = "html" THEN HtmlAccesses
    ELSE IF output_format = "json" THEN JsonAccesses
    ELSE TextAccesses

\* analysis.get(key) is truthy: the key is there with a non-empty table.
get_truthy(stats, key) == key \in DOMAIN stats /\ stats[key] # <<>>

\* Whether the access is made at all, and whether it raises KeyError.
is_made(stats, access) == access[1] # "guarded" \/ get_truthy(stats, access[2])
raises_key_error(stats, access) ==
    access[1] # "get" /\ is_made(stats, access) /\ access[2] \notin DOMAIN stats

\* The accesses of a list that are made on the statistics: all of them up
\* to the first that raises.
RECURSIVE accesses_made(_, _)
accesses_made(stats, accesses) ==
    IF accesses = <<>> THEN <<>>
    ELSE IF ~is_made(stats, Head(accesses)) THEN accesses_made(stats, Tail(accesses))
    ELSE IF raises_key_error(stats, Head(accesses)) THEN <<Head(accesses)>>
    ELSE <<Head(accesses)>> \o accesses_made(stats, Tail(accesses))

\* What a renderer or the preview did with the statistics: the keys it
\* read, each with whether the statistics were the empty mapping, and
\* whether a KeyError ended it.
Rendering(by, stats, accesses) ==
    [ reads  |-> { [by |-> by, key |-> accesses_made(stats, accesses)[i][2],
                    of_empty |-> stats = <<>>] :
                   i \in DOMAIN accesses_made(stats, accesses) },
      raised |-> \E i \in DOMAIN accesses_made(stats, accesses) :
                     raises_key_error(stats, accesses_made(stats, accesses)[i]) ]

\* generate_report without the test of line 482.
generate_report_unguarded(js, output_format, now) ==
    [ analysis |-> Some(analyze_job_data(js, now)),
      reads    |-> Rendering(output_format, analyze_job_data(js, now),
                             renderer_accesses(output_format)).reads,
      raised   |-> Rendering(output_format, analyze_job_data(js, now),
                             renderer_accesses(output_format)).raised,
      content  |-> output_format ]

\* generate_report(jobs, job_title, location, output_format): the message
\* for no records, else the statistics are computed and rendered.  The
\* content of a rendered report is named by its format.
generate_report(js, output_format, now) ==
    IF Len(js) = 0
    THEN [ analysis |-> NoneV, reads |-> {}, raised |-> FALSE, content |-> NoJobsMessage ]
    ELSE [ analysis |-> Some(analyze_job_data(js, now)),
           reads    |-> Rendering(output_format, analyze_job_data(js, now),
                                  renderer_accesses(output_format)).reads,
           raised   |-> Rendering(output_format, analyze_job_data(js, now),
                                  renderer_accesses(output_format)).raised,
           content  |-> output_format ]

\* main runs one search; the batch one search for each title and location;
\* generate_report is called with records and a format.
InitReport ==
    /\ caller \in Callers
    /\ reads = {}
    /\ reports = <<>>
    /\ analysis = NoneV
    /\ \/ /\ caller = "main"
          /\ pending \in [1..1 -> SearchResults]
          /\ searched = <<>>
          /\ formats = <<>>
          /\ p_pc = "search"
       \/ /\ caller = "batch_search_jobs"
          /\ pending \in SeqsUpTo(SearchResults, MaxSearches)
          /\ searched = <<>>
          /\ formats = <<>>
          /\ p_pc = "search"
       \/ /\ caller = "generate_report"
          /\ pending = <<>>
          /\ searched \in SearchResults
          /\ formats \in {<<f>> : f \in FormatArguments}
          /\ p_pc = "reports"
    /\ clock = 0
    /\ AggIdle
    /\ BatchIdle
    /\ ScraperIdle
    /\ SummaryIdle
    /\ AutoIdle

\* jobs = search_linkedin_jobs(...)
SearchJobs ==
    /\ p_pc = "search"
    /\ pending # <<>>
    /\ searched' = Head(pending)
    /\ pending' = Tail(pending)
    /\ p_pc' = "check"
    /\ UNCHANGED <<caller, formats, analysis, reads, reports,
                   aggVars, batchVars, scraperVars, summaryVars, autoVars>>

\* The loops of the batch are over: return results.
BatchDone ==
    /\ p_pc = "search"
    /\ pending = <<>>
    /\ p_pc' = "done"
    /\ UNCHANGED <<caller, pending, searched, formats, analysis, reads, reports,
                   aggVars, batchVars, scraperVars, summaryVars, autoVars>>

\* 'if not jobs: return' of main, 'if jobs:' of the batch.
CheckJobs ==
    /\ p_pc = "check"
    /\ IF Len(searched) = 0
       THEN /\ p_pc' = (IF caller = "main" THEN "done" ELSE "search")
            /\ UNCHANGED formats
       ELSE /\ formats' = (IF caller = "main" THEN MainFormats ELSE BatchFormats)
            /\ p_pc' = "reports"
    /\ UNCHANGED <<caller, pending, searched, analysis, reads, reports,
                   aggVars, batchVars, scraperVars, summaryVars, autoVars>>

\* One call of generate_report for the next format.  main catches what the
\* call raises and goes on with the next format; elsewhere it propagates.
GenerateReport ==
    /\ p_pc = "reports"
    /\ formats # <<>>
    /\ \E report \in {generate_report(searched, Head(formats), clock)} :
          /\ analysis' = (IF report.analysis = NoneV THEN analysis ELSE report.analysis)
          /\ reads' = reads \cup report.reads
          /\ reports' = (IF report.raised THEN reports ELSE Append(reports, report.content))
          /\ p_pc' = (IF report.raised /\ caller # "main" THEN "raised" ELSE "reports")
    /\ formats' = Tail(formats)
    /\ UNCHANGED <<caller, pending, searched,
                   aggVars, batchVars, scraperVars, summaryVars, autoVars>>

\* Every format is done: main goes on to its preview, the batch to the
\* next search, and generate_report has returned.
ReportsDone ==
    /\ p_pc = "reports"
    /\ formats = <<>>
    /\ p_pc' = (IF caller = "main" THEN "preview"
                ELSE IF caller = "batch_search_jobs" THEN "search"
                ELSE "done")
    /\ UNCHANGED <<caller, pending, searched, formats, analysis, reads, reports,
                   aggVars, batchVars, scraperVars, summaryVars, autoVars>>

\* Step 4 of main: the statistics are computed once more and printed.
Preview ==
    /\ p_pc = "preview"
    /\ \E stats \in {analyze_job_data(searched, clock)} :
          \E shown_here \in {Rendering("preview", stats, PreviewAccesses)} :
              /\ analysis' = Some(stats)
              /\ reads' = reads \cup shown_here.reads
              /\ p_pc' = (IF shown_here.raised THEN "raised" ELSE "done")
    /\ UNCHANGED <<caller, pending, searched, formats, reports,
                   aggVars, batchVars, scraperVars, summaryVars, autoVars>>

NextReport ==
    \/ SearchJobs
    \/ BatchDone
    \/ CheckJobs
    \/ GenerateReport
    \/ ReportsDone
    \/ Preview

SpecReport == InitReport /\ [][NextReport]_vars

\* ---------------------------------------------------------------------
\* The statistics of no records
\* ---------------------------------------------------------------------

\* C30: analyze_job_data gives the empty mapping, with no key at all, for
\* the empty record sequence and for it alone; in a run of main, of
\* generate_report or of the batch no key is read from an empty mapping,
\* the statistics computed are never those of no records, and no read
\* fails.
C30_NoReadOfEmptyStatistics ==
    /\ \A js \in SearchResults :
          /\ (analyze_job_data(js, clock) = <<>>) <=> (js = <<>>)
          /\ js = <<>> => DOMAIN analyze_job_data(js, clock) = {}
    /\ \A read \in reads : ~read.of_empty
    /\ analysis # NoneV => analysis # Some(<<>>)
    /\ p_pc # "raised"

\* The batch has returned: one search gave records, whose reports read
\* the statistics, and the last gave none and was passed over.
C30_Witness ==
    /\ caller = "batch_search_jobs"
    /\ p_pc = "done"
    /\ searched = <<>>
    /\ reads # {}
    /\ Len(reports) = 2

====
